---- MODULE Spec2Model ----
(***************************************************************************)
(* State-machine model of the orbital simulation core                      *)
(* (src/src/game/solar_system.rs: SolarSystem::new, select_body,           *)
(* toggle_temperature_unit, set_time_scale, update, render, handle_input). *)
(*                                                                         *)
(* Number representation.  The program computes in f32/f64; the model      *)
(* computes in fixed point over the integers:                              *)
(*   - angles are counted in quanta of 2*pi / (TrailPoints * Sub), so that *)
(*     the trail's angular step 2*pi/1000 is exactly Sub quanta;           *)
(*   - wall-clock time is in milliseconds, as Date::now() returns it;      *)
(*   - angular rates are quanta per millisecond at time_scale 1, all       *)
(*     scaled by the one factor SpeedGain (a choice of unit for            *)
(*     time_scale) so that the slowest modelled body has an integer rate;  *)
(*   - positions and orbit radii are in 1/1000 of a simulation unit,       *)
(*     body radii, render radii and the camera distance in 1/10^7 of one;  *)
(*   - sin/cos are Bhaskara's rational approximation scaled by TrigScale,  *)
(*     exact at the multiples of pi/2.                                     *)
(* Rounding, infinities and NaN of the floating-point formats are outside  *)
(* the model.  Rust's `%` on floats keeps the sign of the dividend (FRem). *)
(***************************************************************************)
EXTENDS Integers, Sequences, FiniteSets, TLC

VARIABLES
    bodies,               \* Vec<Body>, indexed 0 .. Len-1 as in the source
    is_black_hole,        \* SolarSystem.is_black_hole
    time_scale,           \* SolarSystem.time_scale
    last_time,            \* SolarSystem.last_time   (ms since construction)
    current_time,         \* SolarSystem.current_time (ms since construction)
    focused_body_index,   \* SolarSystem.focused_body_index (None = -1)
    camera_distance,      \* SolarSystem.camera_distance
    camera_rotation,      \* SolarSystem.camera_rotation (pitch, yaw)
    use_celsius,          \* SolarSystem.use_celsius
    positions,            \* the positions vector of the update call that led here
    dt,                   \* the wall-clock gap (ms) read by the last update
    frame,                \* what the render call that led to this state computed
                          \* and submitted; NoFrame after any other call
    ticks,                \* number of update calls so far (bounds the run)
    inputs,               \* number of other calls so far (bounds the run)
    game                  \* the runner Game; NoGame where a SolarSystem runs

vars == << bodies, is_black_hole, time_scale, last_time, current_time,
           focused_body_index, camera_distance, camera_rotation, use_celsius,
           positions, dt, frame, ticks, inputs, game >>

-----------------------------------------------------------------------------
(* Bounds of the model *)

\* angle quanta per trail step
Sub == 2
\* common scale of all angular rates (quanta per ms at time_scale 1)
SpeedGain == 1100000
\* bodies pushed by the "Asteroid {i}" loop (1500 in the source)
NumAsteroids == 1
\* body-radius units (1/10^7) per position unit (1/1000)
RadiusPerMilli == 10000
\* sin and cos are scaled by TrigScale
TrigScale == 100
\* update calls explored
MaxTicks == 2
\* calls of set_time_scale, select_body, toggle_temperature_unit and
\* handle_input explored
MaxInputs == 1

(* Program constants *)

\* trail samples per revolution
TrailPoints == 1000
\* cap of Body.trail, in floats
TrailCap == 3000
\* the dt clamp, in milliseconds
MaxDtMs == 100

None == -1
TwoPi == TrailPoints * Sub
Pi == TwoPi \div 2
HalfPi == TwoPi \div 4
AngleStep == TwoPi \div TrailPoints

\* wall-clock gaps between two update calls, in ms: a frame, a tab left in
\* the background, and Date::now() stepping back (it is not monotonic)
Gaps == {1, 10000, -200}
\* values handed to set_time_scale
TimeScales == {-1, 0, 3}
\* what construction finds: the mode asked for, whether create_texture
\* succeeds, whether the #solar-labels element exists, the days since J2000
\* and the seed of the random generator
InitConfigs ==
    { [ black_hole |-> FALSE, gl_ok |-> TRUE,  has_container |-> TRUE,  days |-> 1000, seed |-> 0 ],
      [ black_hole |-> TRUE,  gl_ok |-> FALSE, has_container |-> FALSE, days |-> 0,    seed |-> 1 ] }
\* canvas sizes handed to render
Sizes == { << 800, 600 >> }
\* keys handed to handle_input
Keys == { "ArrowUp", "ArrowDown", "ArrowLeft", "ArrowRight" }

-----------------------------------------------------------------------------
(* Arithmetic helpers *)

Abs(x) == IF x < 0 THEN -x ELSE x
Sgn(x) == IF x < 0 THEN -1 ELSE IF x > 0 THEN 1 ELSE 0
Min(a, b) == IF a < b THEN a ELSE b
Max(a, b) == IF a > b THEN a ELSE b

\* Rust's `a % m` on floats (fmod): the result has the sign of a
FRem(a, m) == IF a >= 0 THEN a % m ELSE -((-a) % m)

\* a / d rounded toward zero
TruncDiv(a, d) == Sgn(a) * (Abs(a) \div d)

\* a * k / d rounded down, without forming a * k
MulDiv(a, k, d) == (a \div d) * k + ((a % d) * k) \div d

RECURSIVE IsqrtIter(_, _, _)
IsqrtIter(n, lo, hi) ==
    IF lo >= hi THEN lo
    ELSE LET mid == (lo + hi + 1) \div 2
         IN  IF mid * mid <= n THEN IsqrtIter(n, mid, hi)
                               ELSE IsqrtIter(n, lo, mid - 1)

\* floor of the square root, 0 <= n < 2^31
Isqrt(n) == IsqrtIter(n, 0, 46340)

\* sin on [0, pi], scaled by TrigScale
SinHalf(x) == (16 * x * (Pi - x) * TrigScale) \div (5 * Pi * Pi - 4 * x * (Pi - x))

\* sin over one turn, tabulated
SinTable == [ r \in 0..(TwoPi - 1) |-> IF r <= Pi THEN SinHalf(r) ELSE -SinHalf(r - Pi) ]

Sin(q) == SinTable[q % TwoPi]
Cos(q) == Sin(q + HalfPi)

\* f32::to_radians of an angle given in 1/100 degree
ToRadians(centideg) == TruncDiv(centideg * TwoPi, 36000)

\* an angle given in 1/(1000*TrigScale) radian, in quanta
RadToQuanta(x) == TruncDiv(x * TwoPi, 6283 * TrigScale)

Vec3(x, y, z) == << x, y, z >>
Zero3 == << 0, 0, 0 >>
VAdd(a, b) == << a[1] + b[1], a[2] + b[2], a[3] + b[3] >>
VSub(a, b) == << a[1] - b[1], a[2] - b[2], a[3] - b[3] >>

-----------------------------------------------------------------------------
(* Kepler position solver: the block repeated in new (trail seeding),      *)
(* update (body and trail samples) and render.                             *)
(*   a: orbit_radius, e: eccentricity in 1/1000, incl/node/peri/m: quanta *)

\* (1.0 - e * e).sqrt() in 1/1000, tabulated over the eccentricities
SqrtOneMinusESquared == [ e \in 0..999 |-> Isqrt(1000000 - e * e) ]

\* variant: the orbit runs in the x-y plane
KeplerPositionUpright(a, e, incl, node, peri, m) ==
    LET big_e == m + RadToQuanta(e * Sin(m))
    IN  Vec3(MulDiv(a, (Cos(big_e) * 1000) \div TrigScale - e, 1000),
             MulDiv(MulDiv(a, SqrtOneMinusESquared[e], 1000), Sin(big_e), TrigScale),
             0)

KeplerPosition(a, e, incl, node, peri, m) ==
    LET big_e     == m + RadToQuanta(e * Sin(m))
        x_orb_raw == MulDiv(a, (Cos(big_e) * 1000) \div TrigScale - e, 1000)
        z_orb_raw == MulDiv(MulDiv(a, SqrtOneMinusESquared[e], 1000), Sin(big_e), TrigScale)
        x_orb     == MulDiv(x_orb_raw, Cos(peri), TrigScale) + MulDiv(z_orb_raw, Sin(peri), TrigScale)
        z_orb     == MulDiv(-x_orb_raw, Sin(peri), TrigScale) + MulDiv(z_orb_raw, Cos(peri), TrigScale)
        y_incl    == MulDiv(z_orb, Sin(incl), TrigScale)
        z_incl    == MulDiv(z_orb, Cos(incl), TrigScale)
        x_final   == MulDiv(x_orb, Cos(node), TrigScale) + MulDiv(z_incl, Sin(node), TrigScale)
        y_final   == y_incl
        z_final   == MulDiv(-x_orb, Sin(node), TrigScale) + MulDiv(z_incl, Cos(node), TrigScale)
    IN  Vec3(x_final, y_final, z_final)

BodyPosition(body, m) ==
    KeplerPosition(body.orbit_radius, body.eccentricity, body.orbit_inclination,
                   body.longitude_of_ascending_node, body.argument_of_periapsis, m)

\* A name is the tuple of its text and, for the numbered bodies of a belt,
\* its number: "Earth" is << "Earth" >>, "Asteroid 7" is << "Asteroid", 7 >>.
\* name.starts_with(prefix), for a prefix that is such a text
StartsWith(name, prefix) == name[1] = prefix

\* name == s
NameIs(name, s) == Len(name) = 1 /\ name[1] = s

IsMinorBody(body) ==
    \/ StartsWith(body.name, "Asteroid")
    \/ StartsWith(body.name, "Kuiper")
    \/ StartsWith(body.name, "Oort")

-----------------------------------------------------------------------------
(* SolarSystem::new *)

\* l0 in 1/100 degree, p in 1/100 day
get_initial_angle(l0, p, days) ==
    LET n_days    == MulDiv(3600000, days, p)
        angle_deg == FRem(l0 + n_days, 36000)
    IN  ToRadians(angle_deg)

\* p in 1/100 day
get_orbit_speed(p) == SpeedGain \div p

\* rng.gen_range(lo..hi): some value of the half-open range, fixed by the seed
GenRange(seed, k, lo, hi) == lo + ((seed * 7919 + k * 104729 + 13) % (hi - lo))

\* env: [black_hole, gl_ok (create_texture succeeds), has_container]
create_body(env, name, radius, orbit_radius, orbit_speed, orbit_angle, color, parent, texture_url, night_texture_url, cloud_texture_url, ring_texture_url, ring_radius, rotation_period, axial_tilt, orbit_inclination, longitude_of_ascending_node, argument_of_periapsis, eccentricity, temperature, ring_inner_radius) ==
    LET minor  == name[1] \in {"Asteroid", "Kuiper", "Oort"}
        frozen == env.black_hole /\ ~NameIs(name, "Black Hole")
    IN  [ name            |-> name,
          radius          |-> radius,
          orbit_radius    |-> orbit_radius,
          orbit_speed     |-> orbit_speed,
          orbit_angle     |-> orbit_angle,
          color           |-> color,
          parent          |-> parent,
          trail           |-> << >>,
          label_element   |-> env.has_container /\ ~minor,
          texture         |-> texture_url /\ env.gl_ok,
          night_texture   |-> night_texture_url /\ env.gl_ok,
          cloud_texture   |-> cloud_texture_url /\ env.gl_ok,
          cloud_rotation  |-> 0,
          rotation_period |-> rotation_period,
          axial_tilt      |-> ToRadians(axial_tilt),
          current_rotation |-> 0,
          orbit_inclination |-> ToRadians(orbit_inclination),
          longitude_of_ascending_node |-> ToRadians(longitude_of_ascending_node),
          argument_of_periapsis |-> ToRadians(argument_of_periapsis),
          last_trail_angle |-> orbit_angle,
          eccentricity    |-> eccentricity,
          temperature     |-> IF frozen THEN 30 ELSE temperature,
          ring_texture    |-> ring_texture_url /\ env.gl_ok,
          ring_radius     |-> ring_radius,
          ring_inner_radius |-> ring_inner_radius,
          is_frozen       |-> frozen ]

Star(env) ==
    IF env.black_hole
    THEN create_body(env, << "Black Hole" >>, 20, 0, 0, 0, << 0, 0, 0 >>, None,
                     FALSE, FALSE, FALSE, FALSE, 0, 0, 0, 0, 0, 0, 0, 0, None)
    ELSE create_body(env, << "Sun" >>, 4650000, 0, 0, 0, << 1000, 1000, 0 >>, None,
                     TRUE, FALSE, FALSE, FALSE, 0, 2500, 725, 0, 0, 0, 0, 5778, None)

Mercury(env, days) ==
    create_body(env, << "Mercury" >>, 16000, 39000, get_orbit_speed(8797),
                get_initial_angle(25225, 8797, days), << 500, 500, 500 >>, 0,
                TRUE, FALSE, FALSE, FALSE, 0, 5860, 3, 700, 0, 0, 205, 440, None)

Venus(env, days) ==
    create_body(env, << "Venus" >>, 40000, 72000, get_orbit_speed(22470),
                get_initial_angle(18198, 22470, days), << 900, 700, 200 >>, 0,
                TRUE, FALSE, TRUE, FALSE, 0, -24300, 17730, 340, 0, 0, 7, 737, None)

Earth(env, days) ==
    IF env.black_hole
    THEN create_body(env, << "Earth" >>, 42000, 100000, get_orbit_speed(36526),
                     get_initial_angle(10046, 36526, days), << 800, 900, 1000 >>, 0,
                     TRUE, FALSE, FALSE, FALSE, 0, 100, 2340, 0, 0, 0, 17, 30, None)
    ELSE create_body(env, << "Earth" >>, 42000, 100000, get_orbit_speed(36526),
                     get_initial_angle(10046, 36526, days), << 0, 0, 1000 >>, 0,
                     TRUE, TRUE, TRUE, FALSE, 0, 100, 2340, 0, 0, 0, 17, 288, None)

Moon(env, days) ==
    create_body(env, << "Moon" >>, 11000, 257, get_orbit_speed(2732),
                get_initial_angle(0, 2732, days), << 600, 600, 600 >>, 3,
                TRUE, FALSE, FALSE, FALSE, 0, 2730, 670, 510, 0, 0, 55, 220, None)

\* one iteration of the "Asteroid {i}" loop
Asteroid(env, seed, i) ==
    LET angle  == GenRange(seed, 8 * i, 0, 36000)
        dist   == GenRange(seed, 8 * i + 1, 220000, 320000)
        size   == GenRange(seed, 8 * i + 2, 100, 500)
        d      == dist \div 1000
        period == MulDiv(MulDiv(36526, d, 100), Isqrt(d * 100), 100)
    IN  create_body(env, << "Asteroid", i >>, size, dist, get_orbit_speed(period),
                    ToRadians(angle), << 500, 500, 500 >>, 0,
                    FALSE, FALSE, FALSE, FALSE, 0,
                    GenRange(seed, 8 * i + 3, 500, 2000),
                    GenRange(seed, 8 * i + 4, 0, 3000),
                    GenRange(seed, 8 * i + 5, -1000, 1000),
                    GenRange(seed, 8 * i + 6, 0, 36000),
                    GenRange(seed, 8 * i + 7, 0, 36000),
                    GenRange(seed, 8 * i + 8, 0, 200),
                    150, None)

Saturn(env, days) ==
    create_body(env, << "Saturn" >>, 390000, 958000, get_orbit_speed(1075922),
                get_initial_angle(4994, 1075922, days), << 900, 800, 500 >>, 0,
                TRUE, FALSE, FALSE, TRUE, 900000, 45, 2670, 248, 0, 0, 57, 134, 150)

Titan(env, days, saturn_idx) ==
    create_body(env, << "Titan" >>, 17000, 810, get_orbit_speed(1594),
                get_initial_angle(0, 1594, days), << 900, 700, 200 >>, saturn_idx,
                FALSE, FALSE, FALSE, FALSE, 0, 1594, 0, 30, 0, 0, 28, 94, None)

\* variant: bodies.len() taken after the push is counted twice
LastIdxOffByOne(pushed) == Len(pushed)

\* let saturn_idx = bodies.len() - 1;
LastIdx(pushed) == Len(pushed) - 1

\* the bodies in push order: star, Mercury, Venus, Earth, Moon, the asteroid
\* loop, Saturn, Titan (the other planets, moons and belts are left out)
PushedBodies(env, days, seed) ==
    LET inner     == << Star(env), Mercury(env, days), Venus(env, days),
                        Earth(env, days), Moon(env, days) >>
        belt      == [ i \in 1 .. NumAsteroids |-> Asteroid(env, seed, i - 1) ]
        upto      == inner \o belt \o << Saturn(env, days) >>
    IN  upto \o << Titan(env, days, LastIdx(upto)) >>

\* Body.trail.  The vector holds three floats per sample, and a sample is
\* BodyPosition at the angle it was taken at; samples are only ever pushed
\* in runs of consecutive angles AngleStep apart.  The model keeps the
\* vector as the sequence of its runs, [first, count]: the samples
\* first, first + AngleStep, ..., first + (count - 1) * AngleStep.
RECURSIVE TrailSamples(_)
TrailSamples(trail) ==
    IF trail = << >> THEN 0 ELSE Head(trail).count + TrailSamples(Tail(trail))

\* trail.len(), in floats
TrailLen(body) == 3 * TrailSamples(body.trail)

\* n consecutive pushes of the samples first, first + AngleStep, ...
PushSamples(trail, first, n) ==
    IF n <= 0 THEN trail
    ELSE IF trail # << >>
            /\ trail[Len(trail)].first + trail[Len(trail)].count * AngleStep = first
         THEN [ trail EXCEPT ![Len(trail)].count = @ + n ]
         ELSE Append(trail, [ first |-> first, count |-> n ])

\* trail.drain(0..3), d times
RECURSIVE DrainSamples(_, _)
DrainSamples(trail, d) ==
    IF d <= 0 \/ trail = << >> THEN trail
    ELSE IF Head(trail).count <= d
         THEN DrainSamples(Tail(trail), d - Head(trail).count)
         ELSE << [ first |-> Head(trail).first + d * AngleStep,
                   count |-> Head(trail).count - d ] >> \o Tail(trail)

\* the angle of the k-th sample of the trail, k in 1 .. TrailSamples(trail)
RECURSIVE SampleAngle(_, _)
SampleAngle(trail, k) ==
    IF k <= Head(trail).count THEN Head(trail).first + (k - 1) * AngleStep
    ELSE SampleAngle(Tail(trail), k - Head(trail).count)

\* variant: the minor bodies are seeded like the others
SeedTrailEveryBody(body) ==
    IF body.orbit_radius > 0 /\ body.orbit_speed # 0
    THEN [ body EXCEPT !.trail =
             PushSamples(body.trail, body.orbit_angle + (-TwoPi), TrailPoints) ]
    ELSE body

\* the initial trail: trail_points samples behind the body, at
\* orbit_angle + (-full_circle + j * angle_step) for j in 0 .. trail_points - 1
SeedTrail(body) ==
    IF IsMinorBody(body) THEN body
    ELSE IF body.orbit_radius > 0 /\ body.orbit_speed # 0
         THEN [ body EXCEPT !.trail =
                  PushSamples(body.trail, body.orbit_angle + (-TwoPi), TrailPoints) ]
         ELSE body

\* Vec<Body> as a function on 0 .. len-1
NewBodies(env, days, seed) ==
    LET pushed == PushedBodies(env, days, seed)
    IN  [ i \in 0 .. Len(pushed) - 1 |-> SeedTrail(pushed[i + 1]) ]

-----------------------------------------------------------------------------
(* The state after SolarSystem::new *)

NoFrame == [ rendered |-> FALSE ]

\* no Game has been constructed
NoGame == [ constructed |-> FALSE ]

Init ==
    \E env \in InitConfigs :
        /\ bodies = NewBodies(env, env.days, env.seed)
        /\ is_black_hole = env.black_hole
        /\ time_scale = 1
        /\ last_time = 0
        /\ current_time = 0
        /\ focused_body_index = 3
        /\ camera_distance = 600000000
        /\ camera_rotation = << RadToQuanta(500 * TrigScale), 0 >>
        /\ use_celsius = TRUE
        /\ positions = << >>
        /\ dt = 0
        /\ frame = NoFrame
        /\ ticks = 0
        /\ inputs = 0
        /\ game = NoGame

-----------------------------------------------------------------------------
(* SolarSystem::select_body, toggle_temperature_unit, set_time_scale.      *)
(* The text they write into the info panel of the page is not modelled.    *)

\* variant: selecting a body never zooms in past the current camera distance
SelectBodyKeepZoom(index) ==
    IF index < Cardinality(DOMAIN bodies)
    THEN << index, Max(camera_distance, bodies[index].radius * 5) >>
    ELSE << None, camera_distance >>

\* variant: an index past the end is stored as the focus
SelectBodyUnchecked(index) ==
    IF index < Cardinality(DOMAIN bodies)
    THEN << index, Max(bodies[index].radius * 5, (bodies[index].radius * 15) \div 10) >>
    ELSE << index, camera_distance >>

\* variant: an index past the end selects the last body
SelectBodyClamped(index) ==
    LET last   == Cardinality(DOMAIN bodies) - 1
        chosen == IF index < Cardinality(DOMAIN bodies) THEN index ELSE last
        radius == bodies[chosen].radius
    IN  << chosen, Max(radius * 5, (radius * 15) \div 10) >>

\* the fields select_body assigns: << focused_body_index, camera_distance >>
SelectBody(index) ==
    IF index < Cardinality(DOMAIN bodies)
    THEN LET radius == bodies[index].radius
         IN  << index, Max(radius * 5, (radius * 15) \div 10) >>
    ELSE << None, camera_distance >>

select_body(index) ==
    /\ inputs < MaxInputs
    /\ focused_body_index' = SelectBody(index)[1]
    /\ camera_distance' = SelectBody(index)[2]
    /\ inputs' = inputs + 1
    /\ frame' = NoFrame
    /\ positions' = << >>
    /\ UNCHANGED game
    /\ UNCHANGED << bodies, is_black_hole, time_scale, last_time, current_time,
                    camera_rotation, use_celsius, dt, ticks >>

toggle_temperature_unit ==
    /\ inputs < MaxInputs
    /\ use_celsius' = ~use_celsius
    /\ IF focused_body_index # None
       THEN /\ focused_body_index' = SelectBody(focused_body_index)[1]
            /\ camera_distance' = SelectBody(focused_body_index)[2]
       ELSE UNCHANGED << focused_body_index, camera_distance >>
    /\ inputs' = inputs + 1
    /\ frame' = NoFrame
    /\ positions' = << >>
    /\ UNCHANGED game
    /\ UNCHANGED << bodies, is_black_hole, time_scale, last_time, current_time,
                    camera_rotation, dt, ticks >>

set_time_scale(scale) ==
    /\ inputs < MaxInputs
    /\ time_scale' = scale
    /\ inputs' = inputs + 1
    /\ frame' = NoFrame
    /\ positions' = << >>
    /\ UNCHANGED game
    /\ UNCHANGED << bodies, is_black_hole, last_time, current_time, focused_body_index,
                    camera_distance, camera_rotation, use_celsius, dt, ticks >>

-----------------------------------------------------------------------------
(* SolarSystem::update.  The date and speed texts it writes into the page   *)
(* are not modelled.                                                       *)

\* variant: the gap is used as read
SafeDtUnclamped(gap) == gap

\* let safe_dt = if dt > 0.1 { 0.1 } else { dt };
SafeDt(gap) == IF gap > MaxDtMs THEN MaxDtMs ELSE gap

\* variant: every body drifts, the parent test and a zero speed notwithstanding
AdvanceOrbitEveryBody(body, safe_dt, scale) ==
    FRem(body.orbit_angle + (body.orbit_speed + 1) * safe_dt * scale, TwoPi)

\* orbit_angle += orbit_speed * safe_dt * time_scale; orbit_angle %= 2 pi
AdvanceOrbit(body, safe_dt, scale) ==
    IF body.parent # None
    THEN FRem(body.orbit_angle + body.orbit_speed * safe_dt * scale, TwoPi)
    ELSE body.orbit_angle

RotationSpeed(body) == SpeedGain \div Abs(body.rotation_period)

\* variant: the spin runs on wall-clock time, whatever the time_scale
AdvanceRotationUnscaled(body, safe_dt, scale) ==
    IF body.rotation_period # 0
    THEN FRem(body.current_rotation + RotationSpeed(body) * safe_dt, TwoPi)
    ELSE body.current_rotation

\* variant: only a body whose day texture loaded spins
AdvanceRotationTextured(body, safe_dt, scale) ==
    IF body.rotation_period # 0 /\ body.texture
    THEN FRem(body.current_rotation + RotationSpeed(body) * safe_dt * scale, TwoPi)
    ELSE body.current_rotation

\* current_rotation += rotation_speed * safe_dt * time_scale; %= 2 pi
AdvanceRotation(body, safe_dt, scale) ==
    IF body.rotation_period # 0
    THEN FRem(body.current_rotation + RotationSpeed(body) * safe_dt * scale, TwoPi)
    ELSE body.current_rotation

AdvanceClouds(body, safe_dt, scale) ==
    IF body.rotation_period # 0 /\ body.cloud_texture
    THEN FRem(body.cloud_rotation + ((RotationSpeed(body) * 2) \div 10) * safe_dt * scale, TwoPi)
    ELSE body.cloud_rotation

\* the unsigned forward delta from last_trail_angle to orbit_angle
TrailDiff(orbit_angle, last_trail_angle) ==
    LET current_angle == FRem(orbit_angle, TwoPi)
        last_angle    == FRem(last_trail_angle, TwoPi)
        diff          == current_angle - last_angle
    IN  IF diff < 0 THEN diff + TwoPi ELSE diff

\* variant: `if` in place of `while`
TrimTrailOnce(trail) ==
    IF 3 * TrailSamples(trail) > TrailCap THEN DrainSamples(trail, 1) ELSE trail

\* variant: `>=` in place of `>`
TrimTrailEager(trail) ==
    LET excess == 3 * TrailSamples(trail) - TrailCap + 1
    IN  IF excess > 0 THEN DrainSamples(trail, (excess + 2) \div 3) ELSE trail

\* while body.trail.len() > 3000 { body.trail.drain(0..3); }
\* the loop runs once per sample in excess of the cap
TrimTrail(trail) ==
    LET excess == 3 * TrailSamples(trail) - TrailCap
    IN  IF excess > 0 THEN DrainSamples(trail, (excess + 2) \div 3) ELSE trail

\* the trail block of update, for a body whose orbit_angle is already advanced
UpdateTrail(body) ==
    IF body.orbit_radius > 0 /\ ~IsMinorBody(body)
    THEN LET diff == TrailDiff(body.orbit_angle, body.last_trail_angle)
         IN  IF diff >= AngleStep
             THEN LET steps        == diff \div AngleStep
                      steps_to_add == Min(steps, 1000)
                  IN  [ body EXCEPT
                          !.trail = TrimTrail(PushSamples(body.trail,
                                        body.last_trail_angle + AngleStep, steps_to_add)),
                          !.last_trail_angle =
                              FRem(body.last_trail_angle + steps * AngleStep, TwoPi) ]
             ELSE body
    ELSE body

UpdateBody(body, safe_dt, scale) ==
    UpdateTrail([ body EXCEPT
                    !.orbit_angle      = AdvanceOrbit(body, safe_dt, scale),
                    !.current_rotation = AdvanceRotation(body, safe_dt, scale),
                    !.cloud_rotation   = AdvanceClouds(body, safe_dt, scale) ])

\* positions[i] = local position + positions[parent], filled in index order
\* over a vector of zeros
RECURSIVE FillPositions(_, _, _)
FillPositions(bs, i, acc) ==
    IF i \notin DOMAIN bs THEN acc
    ELSE LET local == BodyPosition(bs[i], bs[i].orbit_angle)
             pos   == IF bs[i].parent # None THEN VAdd(local, acc[bs[i].parent])
                                             ELSE local
         IN  FillPositions(bs, i + 1, [ acc EXCEPT ![i] = pos ])

\* variant: the parent's position is not added
ComputePositionsLocal(bs) == [ i \in DOMAIN bs |-> BodyPosition(bs[i], bs[i].orbit_angle) ]

ComputePositions(bs) == FillPositions(bs, 0, [ i \in DOMAIN bs |-> Zero3 ])

update(gap) ==
    /\ ticks < MaxTicks
    /\ LET now     == last_time + gap
           safe_dt == SafeDt(now - last_time)
           updated == [ i \in DOMAIN bodies |-> UpdateBody(bodies[i], safe_dt, time_scale) ]
       IN  /\ dt' = now - last_time
           /\ last_time' = now
           /\ current_time' = current_time + safe_dt * time_scale
           /\ bodies' = updated
           /\ positions' = ComputePositions(updated)
    /\ ticks' = ticks + 1
    /\ frame' = NoFrame
    /\ UNCHANGED game
    /\ UNCHANGED << is_black_hole, time_scale, focused_body_index, camera_distance,
                    camera_rotation, use_celsius, inputs >>

-----------------------------------------------------------------------------
(* SolarSystem::render.  It leaves the simulation unchanged; `frame` keeps  *)
(* what the call computed and handed to the renderer, and the style it     *)
(* left on the label elements.                                             *)

\* sqrt(x*x + y*y + z*z), the squares formed on components scaled down
\* so that they fit
Norm3(v) ==
    LET m == Max(Abs(v[1]), Max(Abs(v[2]), Abs(v[3])))
        s == (m \div 16384) + 1
    IN  s * Isqrt((v[1] \div s) * (v[1] \div s) + (v[2] \div s) * (v[2] \div s)
                  + (v[3] \div s) * (v[3] \div s))

\* (rel_cam_x, rel_cam_y, rel_cam_z), in position units
RelCam(distance, rotation) ==
    LET cos0 == Cos(rotation[1])
        sin0 == Sin(rotation[1])
        cos1 == Cos(rotation[2])
        sin1 == Sin(rotation[2])
        x == MulDiv(MulDiv(distance, cos0, TrigScale), sin1, TrigScale)
        y == MulDiv(distance, sin0, TrigScale)
        z == MulDiv(MulDiv(distance, cos0, TrigScale), cos1, TrigScale)
    IN  Vec3(TruncDiv(x, RadiusPerMilli), TruncDiv(y, RadiusPerMilli),
             TruncDiv(z, RadiusPerMilli))

\* min_size = dist * scale_factor, scale_factor 0.0005 for the instanced
\* bodies and 0.002 for the others; dist in position units, the result in
\* radius units
MinSize(body, dist) ==
    IF IsMinorBody(body) THEN MulDiv(dist, 5 * RadiusPerMilli, 10000)
                         ELSE MulDiv(dist, 2 * RadiusPerMilli, 1000)

\* variant: the texture is used at every distance
UseTextureAlways(body, dist) == TRUE

\* let (render_radius, use_texture) = if min_size > body.radius {..} else {..}
UseTexture(body, dist) == ~(MinSize(body, dist) > body.radius)

\* variant: the dot is sized with the instanced factor whatever the body
RenderRadiusMixed(body, dist) ==
    IF MinSize(body, dist) > body.radius THEN MulDiv(dist, 5 * RadiusPerMilli, 10000)
                                         ELSE body.radius

RenderRadius(body, dist) ==
    IF MinSize(body, dist) > body.radius THEN MinSize(body, dist) ELSE body.radius

\* the scale the body is drawn with: render_radius for an instance record,
\* final_render_radius for a mesh
DrawnRadius(body, dist) ==
    IF IsMinorBody(body) THEN RenderRadius(body, dist)
    ELSE IF NameIs(body.name, "Black Hole") THEN 3000000
         ELSE RenderRadius(body, dist)

\* variant: the focus is ignored
FocusTargetOrigin(abs_pos) == Zero3

\* let target = if let Some(idx) = self.focused_body_index { positions[idx] } else { 0 }
FocusTarget(abs_pos) ==
    IF focused_body_index # None THEN abs_pos[focused_body_index] ELSE Zero3

\* variant: a detail layer is submitted whenever the body has it
LayerSubmittedAlways(use_texture, layer) == layer

\* whether a detail layer the body has (night texture, ring, clouds) is
\* submitted: if use_texture { body.layer } else { None }
LayerSubmitted(use_texture, layer) == use_texture /\ layer

\* one iteration of the loop over the bodies
RenderBody(i, abs_pos, target, rel_cam) ==
    LET body == bodies[i]
        pos  == VSub(abs_pos[i], target)
        dist == Norm3(VSub(rel_cam, pos))
        use_texture == UseTexture(body, dist)
        trail_drawn == body.trail # << >> /\ ~IsMinorBody(body)
    IN  IF IsMinorBody(body)
        THEN [ index |-> i, pos |-> pos, dist |-> dist, trail_drawn |-> trail_drawn,
               instanced |-> TRUE,
               render_radius |-> RenderRadius(body, dist),
               instance |-> << pos[1], pos[2], pos[3], RenderRadius(body, dist),
                               body.color[1], body.color[2], body.color[3] >> ]
        ELSE [ index |-> i, pos |-> pos, dist |-> dist, trail_drawn |-> trail_drawn,
               instanced |-> FALSE,
               render_radius |-> RenderRadius(body, dist),
               use_texture |-> use_texture,
               texture |-> use_texture /\ body.texture,
               night_texture |-> LayerSubmitted(use_texture, body.night_texture),
               color_override |-> ~use_texture,
               mesh |-> IF ~use_texture THEN "sphere_mesh" ELSE "body_mesh",
               lighting |-> use_texture /\ ~NameIs(body.name, "Sun")
                                        /\ ~NameIs(body.name, "Black Hole"),
               scale |-> DrawnRadius(body, dist),
               ring_drawn |-> LayerSubmitted(use_texture, body.ring_texture),
               cloud_drawn |-> LayerSubmitted(use_texture, body.cloud_texture) ]

\* variant: a record holds the position and the radius only
RECURSIVE InstanceDataNoColor(_, _)
InstanceDataNoColor(entries, i) ==
    IF i \notin DOMAIN entries THEN << >>
    ELSE (IF entries[i].instanced THEN SubSeq(entries[i].instance, 1, 4) ELSE << >>)
         \o InstanceDataNoColor(entries, i + 1)

RECURSIVE InstanceData(_, _)
InstanceData(entries, i) ==
    IF i \notin DOMAIN entries THEN << >>
    ELSE (IF entries[i].instanced THEN entries[i].instance ELSE << >>)
         \o InstanceData(entries, i + 1)

\* m22 of Matrix4::new_perspective(aspect, 45 degrees, ..): 1 / tan(22.5
\* degrees), in 1/1000; m11 = m22 / aspect
M22 == 2414

\* the least power of ten s with (d \div s) * k within the integers
RECURSIVE ScaleFor(_, _)
ScaleFor(d, k) ==
    IF d > 2147483647 \div k THEN 10 * ScaleFor(d \div 10, k) ELSE 1

\* the rows s, u and f of Matrix4::look_at_rh(eye = rel_cam, target =
\* origin, up = y), scaled by TrigScale^2 (the third row of the matrix is
\* -f, and clip w is f . (pos - eye)): f = normalize(-eye),
\* s = normalize(f x up), u = s x f
ViewRows(distance, rotation) ==
    LET cos0 == Cos(rotation[1])
        sin0 == Sin(rotation[1])
        cos1 == Cos(rotation[2])
        sin1 == Sin(rotation[2])
        sgn  == IF distance < 0 THEN -1 ELSE 1
    IN  [ s |-> << sgn * cos1 * TrigScale, 0, -sgn * sin1 * TrigScale >>,
          u |-> << -sin1 * sin0, cos0 * TrigScale, -cos1 * sin0 >>,
          f |-> << -sgn * cos0 * sin1, -sgn * sin0 * TrigScale, -sgn * cos0 * cos1 >> ]

Dot3(row, v) ==
    MulDiv(v[1], row[1], TrigScale * TrigScale)
    + MulDiv(v[2], row[2], TrigScale * TrigScale)
    + MulDiv(v[3], row[3], TrigScale * TrigScale)

\* clip_center = projection * view * (pos, 1): x, y and w, in position
\* units, or in radius units (fine) for the body at the target, which
\* lies on the view axis at the camera distance.  With the eye on the
\* target the view matrix is NaN and so is w: `clip_center.w > 0.0` is
\* false, which w = 0 stands for.
ClipCenter(pos, rel_cam, distance, rotation, width, height) ==
    IF distance = 0 THEN [ fine |-> TRUE, x |-> 0, y |-> 0, w |-> 0 ]
    ELSE IF pos = Zero3 THEN [ fine |-> TRUE, x |-> 0, y |-> 0, w |-> Abs(distance) ]
    ELSE LET rows == ViewRows(distance, rotation)
             rel  == VSub(pos, rel_cam)
         IN  [ fine |-> FALSE,
               x |-> MulDiv(MulDiv(Dot3(rows.s, rel), height, width), M22, 1000),
               y |-> MulDiv(Dot3(rows.u, rel), M22, 1000),
               w |-> Dot3(rows.f, rel) ]

\* variant: a centre in front of the camera counts as on screen
OnScreenInFront(clip) == clip.w > 0

\* if clip_center.w > 0.0 { if ndc_center_x >= -1.0 && ndc_center_x <= 1.0
\*                             && ndc_center_y >= -1.0 && ndc_center_y <= 1.0
OnScreen(clip) ==
    /\ clip.w > 0
    /\ -clip.w <= clip.x /\ clip.x <= clip.w
    /\ -clip.w <= clip.y /\ clip.y <= clip.w

\* clip / w in 1/1000, for w > 0; it saturates a thousand screens away
Ndc(c, w) ==
    IF Abs(c) \div w >= 1000 THEN Sgn(c) * 1000000 ELSE MulDiv(c, 1000, w)

\* m22 * render_radius / w in 1/1000000, for w > 0
RadiusNdc(render_radius, clip) ==
    LET s    == ScaleFor(clip.w, M22)
        unit == IF clip.fine THEN 1 ELSE RadiusPerMilli
    IN  MulDiv(MulDiv(render_radius, M22, clip.w \div s), 1000, s * unit)

\* radius_px = |screen_cy - screen_ty| = m22 * render_radius / w * height / 2,
\* in 1/1000 pixel, for w > 0.  A radius of more than four times the
\* distance is cut to that: it covers every centre on a screen less than
\* 4.7 times as wide as high.
RadiusPx(render_radius, clip, height) ==
    LET unit == IF clip.fine THEN 1 ELSE RadiusPerMilli
    IN  IF (render_radius \div unit) \div 4 >= clip.w
        THEN (4 * M22 * height) \div 2
        ELSE MulDiv(RadiusNdc(render_radius, clip), height, 2000)

\* screen_data.push(BodyScreenData { index, screen_x, screen_y: screen_cy,
\* label_y, radius_px, depth: dist }), the lengths in 1/1000 pixel
BodyScreenData(entry, clip, width, height) ==
    LET screen_x  == ((Ndc(clip.x, clip.w) + 1000) * width) \div 2
        screen_cy == ((1000 - Ndc(clip.y, clip.w)) * height) \div 2
        radius_px == RadiusPx(entry.render_radius, clip, height)
    IN  [ index |-> entry.index, screen_x |-> screen_x, screen_y |-> screen_cy,
          label_y |-> screen_cy - radius_px - 20000, radius_px |-> radius_px,
          depth |-> entry.dist ]

\* dx * dx + dy * dy < other.radius_px * other.radius_px, on lengths in
\* 1/10 pixel
InsideDisc(data, other) ==
    LET dx == TruncDiv(data.screen_x - other.screen_x, 100)
        dy == TruncDiv(data.screen_y - other.screen_y, 100)
        r  == other.radius_px \div 100
    IN  dx * dx + dy * dy < r * r

\* the inner loop of the occlusion pass over screen_data
Occluded(i, screen_data) ==
    \E j \in DOMAIN screen_data :
        /\ screen_data[i].index # screen_data[j].index
        /\ screen_data[j].depth < screen_data[i].depth
        /\ InsideDisc(screen_data[i], screen_data[j])

\* the bodies the loop reaches the label block for: the instanced ones
\* `continue` before it
Labelled(entries) ==
    { i \in DOMAIN entries : bodies[i].label_element /\ ~entries[i].instanced }

\* the screen_data the loop over the bodies collects
ScreenData(entries, clip, width, height) ==
    [ i \in { j \in Labelled(entries) : OnScreen(clip[j]) } |->
          BodyScreenData(entries[i], clip[i], width, height) ]

\* the style the call leaves on each label element
Labels(entries, screen_data) ==
    [ i \in Labelled(entries) |->
          IF i \notin DOMAIN screen_data THEN [ display |-> "none" ]
          ELSE IF Occluded(i, screen_data) THEN [ display |-> "none" ]
          ELSE [ display |-> "block", left |-> screen_data[i].screen_x,
                 top |-> screen_data[i].label_y ] ]

\* positions[idx] with idx out of range is a panic
Panicked == [ rendered |-> FALSE, panicked |-> TRUE ]

RenderFrame(width, height) ==
    IF focused_body_index # None /\ focused_body_index \notin DOMAIN bodies
    THEN Panicked
    ELSE LET abs_pos == ComputePositions(bodies)
             target  == FocusTarget(abs_pos)
             rel_cam == RelCam(camera_distance, camera_rotation)
             entries == [ i \in DOMAIN bodies |-> RenderBody(i, abs_pos, target, rel_cam) ]
             count   == Cardinality({ i \in DOMAIN bodies : entries[i].instanced })
             clip    == [ i \in DOMAIN bodies |->
                            ClipCenter(entries[i].pos, rel_cam, camera_distance,
                                       camera_rotation, width, height) ]
             screen_data == ScreenData(entries, clip, width, height)
         IN  [ rendered |-> TRUE, width |-> width, height |-> height,
               focus |-> focused_body_index,
               positions |-> abs_pos, target |-> target, rel_cam |-> rel_cam,
               light_position |-> VSub(Zero3, target),
               entries |-> entries,
               instance_data |-> InstanceData(entries, 0),
               asteroid_count |-> count,
               instanced_draws |-> IF count > 0 THEN 1 ELSE 0,
               clip |-> clip,
               screen_data |-> screen_data,
               labels |-> Labels(entries, screen_data) ]

render(width, height) ==
    /\ frame' = RenderFrame(width, height)
    /\ positions' = << >>
    /\ UNCHANGED game
    /\ UNCHANGED << bodies, is_black_hole, time_scale, last_time, current_time,
                    focused_body_index, camera_distance, camera_rotation, use_celsius,
                    dt, ticks, inputs >>

-----------------------------------------------------------------------------
(* SolarSystem::handle_input *)

handle_input(key) ==
    /\ inputs < MaxInputs
    /\ camera_distance' =
          IF key = "ArrowUp" THEN camera_distance - 10000000
          ELSE IF key = "ArrowDown" THEN camera_distance + 10000000
          ELSE camera_distance
    /\ camera_rotation' =
          IF key = "ArrowLeft"
          THEN << camera_rotation[1], camera_rotation[2] - RadToQuanta(100 * TrigScale) >>
          ELSE IF key = "ArrowRight"
          THEN << camera_rotation[1], camera_rotation[2] + RadToQuanta(100 * TrigScale) >>
          ELSE camera_rotation
    /\ inputs' = inputs + 1
    /\ frame' = NoFrame
    /\ positions' = << >>
    /\ UNCHANGED game
    /\ UNCHANGED << bodies, is_black_hole, time_scale, last_time, current_time,
                    focused_body_index, use_celsius, dt, ticks >>

-----------------------------------------------------------------------------
\* indices handed to select_body: the star, a moon, a body of the belt, and
\* the first index out of range
SelectIndices ==
    { 0, 4, 5, Cardinality(DOMAIN bodies) }

Next ==
    \/ \E index \in SelectIndices : select_body(index)
    \/ toggle_temperature_unit
    \/ \E scale \in TimeScales : set_time_scale(scale)
    \/ \E gap \in Gaps : update(gap)
    \/ \E size \in Sizes : render(size[1], size[2])
    \/ \E key \in Keys : handle_input(key)

Spec == Init /\ [][Next]_vars

-----------------------------------------------------------------------------
(* Properties *)

\* an update step is one that counts a tick
IsTick == ticks' = ticks + 1

\* the bodies update records a trail for
IsTrailTracked(body) == body.orbit_radius > 0 /\ ~IsMinorBody(body)

\* C1: after any sequence of update ticks, at any time_scale set through
\* set_time_scale, every body's orbit_angle lies in [0, 2 pi).
C1_OrbitAngleInRange ==
    \A i \in DOMAIN bodies : 0 <= bodies[i].orbit_angle /\ bodies[i].orbit_angle < TwoPi

\* C2: after construction and after every update, no body's trail holds
\* more than 3000 floats.
C2_TrailBounded ==
    \A i \in DOMAIN bodies : TrailLen(bodies[i]) <= TrailCap

\* a tick with a long gap has appended samples to a seeded trail, which is
\* back at the cap
C2_Witness ==
    /\ ticks > 0
    /\ dt > MaxDtMs
    /\ \E i \in DOMAIN bodies : /\ Len(bodies[i].trail) > 1
                                /\ TrailLen(bodies[i]) = TrailCap

\* C9: a trail-tracked body that ticks have carried through more than one
\* revolution has a trail of exactly 3000 floats.
C9_TrailFullAfterRevolution ==
    \A i \in DOMAIN bodies :
        ( /\ IsTrailTracked(bodies[i])
          /\ ticks > 0
          /\ Abs(bodies[i].orbit_speed * current_time) > TwoPi )
        => TrailLen(bodies[i]) = TrailCap

\* the Moon has gone round more than once and its trail has new samples
C9_Witness ==
    /\ ticks > 1
    /\ \E i \in DOMAIN bodies :
          /\ IsTrailTracked(bodies[i])
          /\ Abs(bodies[i].orbit_speed * current_time) > TwoPi
          /\ Len(bodies[i].trail) > 1
          /\ TrailLen(bodies[i]) = TrailCap

\* orbit_angle after n successive ticks of `gap` ms at time_scale `scale`
RECURSIVE AfterTicks(_, _, _, _)
AfterTicks(body, n, gap, scale) ==
    IF n = 0 THEN body.orbit_angle
    ELSE AfterTicks([ body EXCEPT !.orbit_angle = AdvanceOrbit(body, SafeDt(gap), scale) ],
                    n - 1, gap, scale)

\* C3: a single update whose gap is 10 s moves every body's orbit_angle
\* to where ten consecutive updates with 0.1 s gaps would move it.
C3_SpikeEqualsTenTicks ==
    [][ (IsTick /\ dt' = 10000) =>
            \A i \in DOMAIN bodies :
                bodies'[i].orbit_angle = AfterTicks(bodies[i], 10, MaxDtMs, time_scale) ]_vars

\* C3, as the code has it: a single update whose gap is 10 s moves every
\* body's orbit_angle to where one update with a 0.1 s gap would move it.
C3_SpikeEqualsOneTick ==
    [][ (IsTick /\ dt' = 10000) =>
            \A i \in DOMAIN bodies :
                bodies'[i].orbit_angle = AfterTicks(bodies[i], 1, MaxDtMs, time_scale) ]_vars

\* a tick with a 10 s gap has run while the clock was moving
C3_Witness ==
    /\ ticks > 0
    /\ dt = 10000
    /\ time_scale # 0
    /\ current_time # 0

\* C10: in one update every body's orbit_angle advances by
\* orbit_speed * min(dt, 0.1 s) * time_scale and is then wrapped, and the
\* advance is no larger than |orbit_speed * 0.1 s * time_scale|.
C10_ClampedAdvance ==
    [][ IsTick =>
            \A i \in DOMAIN bodies :
                LET advance == bodies[i].orbit_speed * Min(dt', MaxDtMs) * time_scale
                IN  /\ bodies'[i].orbit_angle = FRem(bodies[i].orbit_angle + advance, TwoPi)
                    /\ Abs(advance) <= Abs(bodies[i].orbit_speed * MaxDtMs * time_scale)
                    /\ current_time' - current_time = Min(dt', MaxDtMs) * time_scale ]_vars

C5_ParentBeforeChild ==
    \A i \in DOMAIN bodies :
        bodies[i].parent # None =>
            /\ bodies[i].parent \in DOMAIN bodies
            /\ bodies[i].parent < i

\* ticks have run on an instance with a moon whose parent index was read
\* off the length of the list
C5_Witness ==
    /\ ticks > 0
    /\ \E i \in DOMAIN bodies : bodies[i].parent > 3 /\ bodies[i].parent = i - 1

\* positions as C6 states them: the local Kepler offset, plus the parent's
\* position when there is a parent
PositionsCompose(bs, pos) ==
    \A i \in DOMAIN bs :
        pos[i] = IF bs[i].parent # None
                 THEN VAdd(BodyPosition(bs[i], bs[i].orbit_angle), pos[bs[i].parent])
                 ELSE BodyPosition(bs[i], bs[i].orbit_angle)

\* a parent on a circular orbit of radius 100 at angle 0 and its child on a
\* circular orbit of radius 0.257 at angle 0
ExampleSystem ==
    [ i \in {0, 1} |->
        [ orbit_radius |-> IF i = 0 THEN 100000 ELSE 257, eccentricity |-> 0,
          orbit_inclination |-> 0, longitude_of_ascending_node |-> 0,
          argument_of_periapsis |-> 0, orbit_angle |-> 0,
          parent |-> IF i = 0 THEN None ELSE 0 ] ]

\* C6: in update and in render, a body's absolute position is its local
\* Kepler offset plus its parent's absolute position; a parent at (100,0,0)
\* and a child offset of (0.257,0,0) put the child at (100.257,0,0).
C6_AbsoluteIsLocalPlusParent ==
    /\ positions # << >> => PositionsCompose(bodies, positions)
    /\ frame.rendered => PositionsCompose(bodies, frame.positions)
    /\ ComputePositions(ExampleSystem) = [ i \in {0, 1} |->
            IF i = 0 THEN << 100000, 0, 0 >> ELSE << 100257, 0, 0 >> ]

\* a frame rendered after a tick, with a moon away from its parent, which
\* is away from the origin
C6_Witness ==
    /\ frame.rendered
    /\ ticks > 0
    /\ \E i \in DOMAIN bodies :
          /\ bodies[i].parent # None
          /\ frame.positions[bodies[i].parent] # Zero3
          /\ frame.positions[i] # frame.positions[bodies[i].parent]

\* C7: in a frame rendered with a body in focus, that body's position
\* relative to the focus is the zero vector.
C7_FocusAtOrigin ==
    (frame.rendered /\ frame.focus # None) => frame.entries[frame.focus].pos = Zero3

\* a frame rendered after a tick with a moon in focus, away from the origin
C7_Witness ==
    /\ frame.rendered
    /\ ticks > 0
    /\ frame.focus = 4
    /\ frame.positions[4] # Zero3

\* camera distances in increasing order, on both sides of every body's LOD
\* threshold, in position units
ProbeDistances == << 0, 10, 200, 5000, 100000, 2000000 >>

\* C8: for a body, instanced or not, the render radius the LOD policy
\* chooses never decreases as the camera distance grows.
C8_RenderRadiusMonotone ==
    frame.rendered =>
        \A i \in DOMAIN bodies :
            /\ \A k \in 1..(Len(ProbeDistances) - 1) :
                  /\ RenderRadius(bodies[i], ProbeDistances[k])
                        <= RenderRadius(bodies[i], ProbeDistances[k + 1])
                  /\ DrawnRadius(bodies[i], ProbeDistances[k])
                        <= DrawnRadius(bodies[i], ProbeDistances[k + 1])
            /\ \A k \in DOMAIN ProbeDistances :
                  /\ ProbeDistances[k] <= frame.entries[i].dist =>
                        RenderRadius(bodies[i], ProbeDistances[k])
                            <= frame.entries[i].render_radius
                  /\ ProbeDistances[k] >= frame.entries[i].dist =>
                        RenderRadius(bodies[i], ProbeDistances[k])
                            >= frame.entries[i].render_radius

\* a frame in which one body is drawn at its own radius and others, one
\* of them instanced, at the minimum size
C8_Witness ==
    /\ frame.rendered
    /\ \E i, j, k \in DOMAIN bodies :
          /\ frame.entries[i].render_radius = bodies[i].radius
          /\ ~IsMinorBody(bodies[j])
          /\ frame.entries[j].render_radius > bodies[j].radius
          /\ IsMinorBody(bodies[k])
          /\ frame.entries[k].render_radius > bodies[k].radius

\* C11: while time_scale is 0, an update tick leaves current_time and every
\* body's orbit_angle, current_rotation, cloud_rotation, trail and
\* last_trail_angle as they were.
C11_PauseFreezes ==
    [][ (IsTick /\ time_scale = 0) =>
            /\ current_time' = current_time
            /\ \A i \in DOMAIN bodies :
                  /\ bodies'[i].orbit_angle = bodies[i].orbit_angle
                  /\ bodies'[i].current_rotation = bodies[i].current_rotation
                  /\ bodies'[i].cloud_rotation = bodies[i].cloud_rotation
                  /\ bodies'[i].trail = bodies[i].trail
                  /\ bodies'[i].last_trail_angle = bodies[i].last_trail_angle ]_vars

\* a tick has run at time_scale 0, with a gap, after the clock had moved
C11_Witness ==
    /\ ticks > 1
    /\ time_scale = 0
    /\ dt # 0
    /\ current_time # 0

\* C12: select_body with an index that is not below the number of bodies
\* clears the focus and leaves camera_distance, time_scale and the bodies as
\* they were; a render with no focus is centred on the origin.
C12_OutOfRangeClearsFocus ==
    [][ /\ \A index \in SelectIndices :
              (index >= Cardinality(DOMAIN bodies) /\ select_body(index)) =>
                  /\ focused_body_index' = None
                  /\ camera_distance' = camera_distance
                  /\ time_scale' = time_scale
                  /\ bodies' = bodies
        /\ (frame'.rendered /\ focused_body_index = None) =>
              /\ frame'.target = Zero3
              /\ \A i \in DOMAIN bodies : frame'.entries[i].pos = frame'.positions[i] ]_vars

\* a frame rendered with the focus cleared, away from the initial camera
\* distance
C12_Witness ==
    /\ frame.rendered
    /\ frame.focus = None
    /\ focused_body_index = None
    /\ inputs > 0

\* C13: select_body with an index below the number of bodies makes that body
\* the focus and sets camera_distance to 5 times its radius, whatever the
\* focus and the camera distance were before; the call toggle_temperature_unit
\* makes on the focused body does the same.
C13_SelectSetsFocusAndDistance ==
    [][ /\ \A index \in SelectIndices :
              (index < Cardinality(DOMAIN bodies) /\ select_body(index)) =>
                  /\ focused_body_index' = index
                  /\ camera_distance' = 5 * bodies[index].radius
        /\ (toggle_temperature_unit /\ focused_body_index # None) =>
              /\ focused_body_index' = focused_body_index
              /\ camera_distance' = 5 * bodies[focused_body_index].radius ]_vars

\* a body other than the initial focus has been selected and the camera
\* distance has left its initial value for 5 times that body's radius
C13_Witness ==
    /\ inputs > 0
    /\ focused_body_index \in DOMAIN bodies
    /\ focused_body_index # 3
    /\ camera_distance = 5 * bodies[focused_body_index].radius
    /\ camera_distance # 600000000

-----------------------------------------------------------------------------
(* SolarSystem::new over arbitrary body data: the constructor's sequence of *)
(* bodies.push(create_body(..)) calls, with the orbital elements and the    *)
(* parent index of each pushed body drawn from sets that include values     *)
(* outside the documented ranges.                                           *)

MaxSetupBodies == 3

\* eccentricity in 1/1000: circular, Mercury's, parabolic, hyperbolic
SetupEccentricities == { 0, 205, 1000, 1200 }

SetupParents == { None } \cup (0 .. MaxSetupBodies - 1)

InitSetup ==
    /\ bodies = << >>
    /\ is_black_hole \in BOOLEAN
    /\ time_scale = 1
    /\ last_time = 0
    /\ current_time = 0
    /\ focused_body_index = 3
    /\ camera_distance = 600000000
    /\ camera_rotation = << RadToQuanta(500 * TrigScale), 0 >>
    /\ use_celsius = TRUE
    /\ positions = << >>
    /\ dt = 0
    /\ frame = NoFrame
    /\ ticks = 0
    /\ inputs = 0
    /\ game = NoGame

\* bodies.push(create_body(..)): nothing is checked, the push always succeeds
push_body(parent, eccentricity) ==
    LET n    == Cardinality(DOMAIN bodies)
        env  == [ black_hole |-> is_black_hole, gl_ok |-> TRUE, has_container |-> TRUE ]
        body == create_body(env, << "Body" >>, 16000, 39000, get_orbit_speed(8797), 0,
                            << 500, 500, 500 >>, parent, FALSE, FALSE, FALSE, FALSE,
                            0, 5860, 3, 700, 0, 0, eccentricity, 440, None)
    IN  /\ n < MaxSetupBodies
        /\ bodies' = [ i \in 0 .. n |-> IF i < n THEN bodies[i] ELSE body ]
        /\ UNCHANGED game
        /\ UNCHANGED << is_black_hole, time_scale, last_time, current_time,
                        focused_body_index, camera_distance, camera_rotation,
                        use_celsius, positions, dt, frame, ticks, inputs >>

NextSetup ==
    \E parent \in SetupParents, eccentricity \in SetupEccentricities :
        push_body(parent, eccentricity)

SpecSetup == InitSetup /\ [][NextSetup]_vars

-----------------------------------------------------------------------------
(* The solar system with one more body pushed last: a probe on a circular,  *)
(* untilted orbit of radius 100 around the star, started at a chosen mean   *)
(* anomaly.  update and render apply the Kepler solver to it.               *)

\* the probe's orbit_angle at construction
KeplerAngles == { 0, HalfPi }

Probe(env, m) ==
    create_body(env, << "Probe" >>, 16000, 100000, get_orbit_speed(8797), m,
                << 500, 500, 500 >>, 0, FALSE, FALSE, FALSE, FALSE,
                0, 5860, 0, 0, 0, 0, 0, 440, None)

InitKepler ==
    \E m \in KeplerAngles :
        LET env    == [ black_hole |-> FALSE, gl_ok |-> TRUE, has_container |-> TRUE ]
            pushed == PushedBodies(env, 1000, 0) \o << Probe(env, m) >>
        IN  /\ bodies = [ i \in 0 .. Len(pushed) - 1 |-> SeedTrail(pushed[i + 1]) ]
            /\ is_black_hole = FALSE
            /\ time_scale = 1
            /\ last_time = 0
            /\ current_time = 0
            /\ focused_body_index = 3
            /\ camera_distance = 600000000
            /\ camera_rotation = << RadToQuanta(500 * TrigScale), 0 >>
            /\ use_celsius = TRUE
            /\ positions = << >>
            /\ dt = 0
            /\ frame = NoFrame
            /\ ticks = 0
            /\ inputs = 0
            /\ game = NoGame

SpecKepler == InitKepler /\ [][Next]_vars

ProbeIdx == Cardinality(DOMAIN bodies) - 1

\* what C15 says of a position computed for the probe at mean anomaly m
ProbeScenario(m, pos) ==
    /\ m = 0 => pos = << 100000, 0, 0 >>
    /\ m = HalfPi => /\ Abs(pos[1]) <= 10
                     /\ Abs(pos[2]) <= 10
                     /\ Abs(pos[3] - 100000) <= 10

\* C15: the Kepler solver puts a body with orbit_radius 100, eccentricity 0,
\* inclination 0 and zero node and periapsis angles at (100, 0, 0) when its
\* orbit_angle is 0 and at (0, 0, 100), to 1e-4 of the radius, when it is
\* pi/2; in update and in render.
C15_CircularOrbitScenario ==
    /\ positions # << >> =>
          ProbeScenario(bodies[ProbeIdx].orbit_angle, positions[ProbeIdx])
    /\ frame.rendered =>
          ProbeScenario(bodies[ProbeIdx].orbit_angle, frame.positions[ProbeIdx])

\* update has placed the probe at orbit_angle pi/2
C15_Witness ==
    /\ positions # << >>
    /\ bodies[ProbeIdx].orbit_angle = HalfPi
    /\ positions[ProbeIdx][3] > 0


\* d * 0.002 in radius units, d the camera-to-body distance of a frame entry
DotRadius(entry) == MulDiv(entry.dist, 2 * RadiusPerMilli, 1000)

\* the attributes C16 gives an individually drawn body's draw call, apart
\* from its scale
LodAttributes(body, entry) ==
    IF body.radius < DotRadius(entry)
    THEN /\ entry.color_override
         /\ entry.mesh = "sphere_mesh"
         /\ ~entry.texture
    ELSE /\ ~entry.color_override
         /\ entry.mesh = "body_mesh"
         /\ entry.texture = body.texture

\* the scale C16 gives it
LodScale(body, entry) ==
    IF body.radius < DotRadius(entry) THEN DotRadius(entry) ELSE body.radius

\* C16 as stated: every individually drawn body closer than the switch is
\* drawn at its true radius with its texture, and every one farther away at
\* d * 0.002 with a flat colour, the shared sphere and no texture.
C16_LodSwitchEveryBody ==
    frame.rendered =>
        \A i \in DOMAIN bodies :
            ~frame.entries[i].instanced =>
                /\ LodAttributes(bodies[i], frame.entries[i])
                /\ frame.entries[i].scale = LodScale(bodies[i], frame.entries[i])

\* C16: the same, except that the Black Hole is always drawn with scale 0.3;
\* its colour override, mesh and texture follow the switch like any body's.
C16_LodSwitch ==
    frame.rendered =>
        \A i \in DOMAIN bodies :
            ~frame.entries[i].instanced =>
                /\ LodAttributes(bodies[i], frame.entries[i])
                /\ frame.entries[i].scale =
                      IF NameIs(bodies[i].name, "Black Hole") THEN 3000000
                      ELSE LodScale(bodies[i], frame.entries[i])

\* a frame of the black-hole system with a body in close-up, another body as
\* a distant dot, and the Black Hole itself on the dot side
C16_Witness ==
    /\ frame.rendered
    /\ \E i, j, k \in DOMAIN bodies :
          /\ ~frame.entries[i].instanced
          /\ bodies[i].radius >= DotRadius(frame.entries[i])
          /\ frame.entries[i].mesh = "body_mesh"
          /\ ~frame.entries[j].instanced
          /\ ~NameIs(bodies[j].name, "Black Hole")
          /\ bodies[j].radius < DotRadius(frame.entries[j])
          /\ NameIs(bodies[k].name, "Black Hole")
          /\ bodies[k].radius < DotRadius(frame.entries[k])


\* C17: in a rendered frame, a body in the distant-dot regime (radius below
\* d * 0.002) has no ring, no cloud overlay and no night-side texture
\* submitted; these are submitted only in the close-up regime.
C17_DetailLayersOnlyCloseUp ==
    frame.rendered =>
        \A i \in DOMAIN bodies :
            (~frame.entries[i].instanced /\ bodies[i].radius < DotRadius(frame.entries[i])) =>
                /\ ~frame.entries[i].ring_drawn
                /\ ~frame.entries[i].cloud_drawn
                /\ ~frame.entries[i].night_texture

\* a frame with a body in close-up whose clouds and night side are submitted
\* and a ringed body left as a distant dot
C17_Witness ==
    /\ frame.rendered
    /\ \E i, j \in DOMAIN bodies :
          /\ ~frame.entries[i].instanced
          /\ bodies[i].radius >= DotRadius(frame.entries[i])
          /\ frame.entries[i].cloud_drawn
          /\ frame.entries[i].night_texture
          /\ ~frame.entries[j].instanced
          /\ bodies[j].radius < DotRadius(frame.entries[j])
          /\ bodies[j].ring_texture
          /\ ~frame.entries[j].ring_drawn


\* the indices of the minor bodies
MinorBodies == { i \in DOMAIN bodies : IsMinorBody(bodies[i]) }

ForwardDelta(orbit_angle, last_trail_angle) == (orbit_angle - last_trail_angle) % TwoPi

\* what C19 says of one body across a tick: before is the body as the tick
\* found it, after as the tick left it
TrailSampled(before, after) ==
    LET delta == ForwardDelta(after.orbit_angle, before.last_trail_angle)
        n     == Min(delta \div AngleStep, 1000)
        total == TrailSamples(after.trail)
        kept  == total - n
        dropped == TrailSamples(before.trail) - kept
    IN  IF delta >= AngleStep
        THEN /\ total = Min(TrailSamples(before.trail) + n, TrailPoints)
             /\ \A k \in 1 .. n :
                   SampleAngle(after.trail, kept + k) = before.last_trail_angle + k * AngleStep
             /\ \A k \in 1 .. kept :
                   SampleAngle(after.trail, k) = SampleAngle(before.trail, dropped + k)
             /\ (after.last_trail_angle - before.last_trail_angle - n * AngleStep) % TwoPi = 0
        ELSE /\ after.trail = before.trail
             /\ after.last_trail_angle = before.last_trail_angle

\* C19: in an update tick, a trail-tracked body whose forward angular delta
\* from last_trail_angle to orbit_angle is at least one step gets exactly
\* min(floor(delta / step), 1000) samples appended, at the angles
\* last_trail_angle + k * step, and its last_trail_angle advances by the
\* angle of those samples; below one step its trail and last_trail_angle do
\* not change.
C19_TrailSampling ==
    [][ IsTick => \A i \in DOMAIN bodies :
                      IsTrailTracked(bodies[i]) => TrailSampled(bodies[i], bodies'[i]) ]_vars


\* C20: a minor body (name starting with Asteroid, Kuiper or Oort) has an
\* empty trail after construction and after any update ticks, never has a
\* label element, and has no trail drawn in a rendered frame.
C20_MinorBodiesUntracked ==
    \A i \in MinorBodies :
        /\ bodies[i].trail = << >>
        /\ ~bodies[i].label_element
        /\ frame.rendered => ~frame.entries[i].trail_drawn

\* after the ticks allowed, a moving minor body next to a body that has a
\* trail and a label
C20_Witness ==
    /\ ticks = MaxTicks
    /\ time_scale # 0
    /\ \E i \in MinorBodies, j \in DOMAIN bodies :
          /\ bodies[i].orbit_radius > 0
          /\ bodies[i].orbit_speed # 0
          /\ bodies[i].orbit_angle # bodies[i].last_trail_angle
          /\ bodies[j].trail # << >>
          /\ bodies[j].label_element


-----------------------------------------------------------------------------
(* Construction and ticks when resources are missing *)

\* the fields that hold a resource: the four textures and the label
ResourceFields ==
    { "texture", "night_texture", "cloud_texture", "ring_texture", "label_element" }

\* a body without its resource fields
Core(body) == [ f \in (DOMAIN body) \ ResourceFields |-> body[f] ]

\* a body without its resource fields and without cloud_rotation
CoreButClouds(body) ==
    [ f \in (DOMAIN body) \ (ResourceFields \cup { "cloud_rotation" }) |-> body[f] ]

\* the body collection the same construction yields when every texture loads
\* and the label container exists
AllLoaded ==
    LET env == CHOOSE c \in InitConfigs : c.black_hole = is_black_hole
    IN  NewBodies([ env EXCEPT !.gl_ok = TRUE, !.has_container = TRUE ], env.days, env.seed)

\* body i with the resources it has when all of them load
WithAllLoaded(i) ==
    [ f \in DOMAIN bodies[i] |->
        IF f \in ResourceFields THEN AllLoaded[i][f] ELSE bodies[i][f] ]

\* the collection is complete, nothing is held that was not asked for, and
\* before the first tick every other field is as when all resources load
FullCollection ==
    /\ DOMAIN bodies = DOMAIN AllLoaded
    /\ \A i \in DOMAIN bodies :
          /\ \A f \in ResourceFields : bodies[i][f] => AllLoaded[i][f]
          /\ ticks = 0 => Core(bodies[i]) = Core(AllLoaded[i])

\* C23 as stated: whatever textures failed to load and whether or not there
\* is a label container, construction yields every body with the same
\* elements, and a tick takes every body where it would take it with all its
\* resources loaded, in every field that is not a resource.
C23_TicksIgnoreResources ==
    /\ []FullCollection
    /\ [][ IsTick => \A i \in DOMAIN bodies :
                Core(bodies'[i]) = Core(UpdateBody(WithAllLoaded(i), SafeDt(dt'), time_scale)) ]_vars

\* C23: the same for every field but cloud_rotation, which a tick advances
\* only when the cloud texture loaded.
C23_TicksIgnoreResourcesButClouds ==
    /\ []FullCollection
    /\ [][ IsTick => \A i \in DOMAIN bodies :
                /\ CoreButClouds(bodies'[i]) =
                      CoreButClouds(UpdateBody(WithAllLoaded(i), SafeDt(dt'), time_scale))
                /\ bodies'[i].cloud_rotation =
                      IF bodies[i].cloud_texture
                      THEN UpdateBody(WithAllLoaded(i), SafeDt(dt'), time_scale).cloud_rotation
                      ELSE bodies[i].cloud_rotation ]_vars

\* after the ticks allowed, a spinning body whose day and cloud textures
\* failed to load and that has no label
C23_Witness ==
    /\ ticks = MaxTicks
    /\ \E i \in DOMAIN bodies :
          /\ AllLoaded[i].texture /\ ~bodies[i].texture
          /\ AllLoaded[i].cloud_texture /\ ~bodies[i].cloud_texture
          /\ AllLoaded[i].label_element /\ ~bodies[i].label_element
          /\ bodies[i].current_rotation # 0
          /\ bodies[i].orbit_angle # AllLoaded[i].orbit_angle


\* C25: focused_body_index is None or an index of the body collection, and
\* no render stops on positions[idx] out of range.
C25_FocusValid ==
    /\ focused_body_index = None \/ focused_body_index \in DOMAIN bodies
    /\ "panicked" \notin DOMAIN frame

\* a frame rendered after the focus was moved off the initial body
C25_Witness ==
    /\ frame.rendered
    /\ inputs > 0
    /\ focused_body_index \in DOMAIN bodies
    /\ focused_body_index # 3


\* C26: camera_distance is strictly positive and within the zoom bounds,
\* 0.0001 to 100000000, after any camera and selection operations.
C26_CameraDistanceInBounds ==
    /\ camera_distance > 0
    /\ camera_distance >= RadiusPerMilli \div 10
    /\ camera_distance \div (1000 * RadiusPerMilli) <= 100000000


\* C27: for every trail-tracked body the forward angular gap from
\* last_trail_angle to orbit_angle, taken mod 2 pi, is less than one trail
\* step, at the end of every update tick.
C27_TrailKeepsUp ==
    \A i \in DOMAIN bodies :
        IsTrailTracked(bodies[i]) =>
            ForwardDelta(bodies[i].orbit_angle, bodies[i].last_trail_angle) < AngleStep


-----------------------------------------------------------------------------
(* SolarSystem::handle_wheel.  The zoom limits span twelve decades, more    *)
(* than a fixed-point camera distance can hold, so this section holds f32   *)
(* values as decimal floating-point numbers s * m * 10^e with a mantissa of *)
(* four digits, with the infinities and NaN, and SpecWheel keeps            *)
(* camera_distance in that form.                                            *)

MaxWheels == 3

NaN == [ k |-> "nan", s |-> 1, m |-> 0, e |-> 0 ]
Inf(s) == [ k |-> "inf", s |-> s, m |-> 0, e |-> 0 ]
FZero(s) == [ k |-> "num", s |-> s, m |-> 0, e |-> 0 ]

\* s * m * 10^e brought to a four-digit mantissa (rounded toward zero), with
\* f32's overflow to infinity above 3.4e38 and underflow to zero below 1e-45
RECURSIVE F(_, _, _)
F(s, m, e) ==
    IF m = 0 THEN FZero(s)
    ELSE IF m >= 10000 THEN F(s, m \div 10, e + 1)
    ELSE IF m < 1000 THEN F(s, m * 10, e - 1)
    ELSE IF e > 35 \/ (e = 35 /\ m > 3402) THEN Inf(s)
    ELSE IF e < -48 THEN FZero(s)
    ELSE [ k |-> "num", s |-> s, m |-> m, e |-> e ]

\* a * b
FMul(a, b) ==
    IF a.k = "nan" \/ b.k = "nan" THEN NaN
    ELSE IF a.k = "inf" \/ b.k = "inf"
         THEN IF (a.k = "num" /\ a.m = 0) \/ (b.k = "num" /\ b.m = 0) THEN NaN
              ELSE Inf(a.s * b.s)
    ELSE F(a.s * b.s, a.m * b.m, a.e + b.e)

\* a < b; false when either is NaN
FLess(a, b) ==
    LET \* the order of a value among those of its sign: << rank, e, m >>
        Key(x) == IF x.k = "inf" THEN << 2, 0, 0 >>
                  ELSE IF x.m = 0 THEN << 0, 0, 0 >>
                  ELSE << 1, x.e, x.m >>
        KeyLess(p, q) == \/ p[1] < q[1]
                         \/ p[1] = q[1] /\ p[2] < q[2]
                         \/ p[1] = q[1] /\ p[2] = q[2] /\ p[3] < q[3]
        IsZero(x) == x.k = "num" /\ x.m = 0
    IN  /\ a.k # "nan" /\ b.k # "nan"
        /\ ~(IsZero(a) /\ IsZero(b))
        /\ IF IsZero(a) THEN b.s = 1
           ELSE IF IsZero(b) THEN a.s = -1
           ELSE IF a.s # b.s THEN a.s < b.s
           ELSE IF a.s = 1 THEN KeyLess(Key(a), Key(b))
           ELSE KeyLess(Key(b), Key(a))

\* f32::max and f32::min: a NaN operand is ignored
FMax(a, b) == IF a.k = "nan" THEN b ELSE IF b.k = "nan" THEN a ELSE IF FLess(a, b) THEN b ELSE a
FMin(a, b) == IF a.k = "nan" THEN b ELSE IF b.k = "nan" THEN a ELSE IF FLess(b, a) THEN b ELSE a

\* f32::exp at the arguments the wheel deltas explored give, to four digits;
\* it overflows to infinity above 88.72 and underflows to zero below -103.97
FExp(x) ==
    IF x.k = "nan" THEN NaN
    ELSE IF x.k = "inf" THEN (IF x.s = 1 THEN Inf(1) ELSE FZero(1))
    ELSE IF x.m = 0 THEN F(1, 1000, -3)
    ELSE IF FLess(F(1, 8872, -2), x) THEN Inf(1)
    ELSE IF FLess(x, F(-1, 1039, -1)) THEN FZero(1)
    ELSE CASE x = F(1, 1000, -4)  -> F(1, 1105, -3)
           [] x = F(-1, 1000, -4) -> F(1, 9048, -4)
           [] x = F(1, 3000, -3)  -> F(1, 2008, -2)
           [] x = F(-1, 3000, -3) -> F(1, 4978, -5)
           [] x = F(1, 8000, -2)  -> F(1, 5540, 31)
           [] x = F(-1, 1000, -1) -> F(1, 3720, -47)

\* wheel deltas: a notch either way, a fast scroll either way, deltas whose
\* factor alone leaves the f32 range, and a NaN
WheelDeltas ==
    { F(1, 1000, -1), F(-1, 1000, -1), F(1, 3000, 0), F(-1, 3000, 0),
      F(1, 8000, 1), F(-1, 1000, 2), F(1, 2000, 2), F(-1, 2000, 2), NaN }

ZoomMin == F(1, 1000, -7)
ZoomMax == F(1, 1000, 5)

\* camera distances the other operations leave: the initial 60.0, 5 x Earth's
\* radius, that less one ArrowUp, sixty ArrowUp from the start, and 5 x the
\* Black Hole's radius
WheelStartDistances ==
    { F(1, 6000, -2), F(1, 2100, -5), F(-1, 9790, -4), FZero(1), F(1, 9888, -9) }

\* variant: the distance is only capped from above
WheelZoomNoFloor(distance, delta) ==
    LET factor == FExp(FMul(delta, F(1, 1000, -6)))
    IN  FMin(FMul(distance, factor), ZoomMax)

\* camera_distance *= (delta * 0.001).exp(); then .max(0.0001).min(100000000.0)
WheelZoom(distance, delta) ==
    LET zoom_sensitivity == F(1, 1000, -6)
        factor           == FExp(FMul(delta, zoom_sensitivity))
    IN  FMin(FMax(FMul(distance, factor), ZoomMin), ZoomMax)

InitWheel ==
    \E env \in InitConfigs :
    /\ camera_distance \in WheelStartDistances
    /\ bodies = NewBodies(env, env.days, env.seed)
    /\ is_black_hole = env.black_hole
    /\ time_scale = 1
    /\ last_time = 0
    /\ current_time = 0
    /\ focused_body_index = 3
    /\ camera_rotation = << RadToQuanta(500 * TrigScale), 0 >>
    /\ use_celsius = TRUE
    /\ positions = << >>
    /\ dt = 0
    /\ frame = NoFrame
    /\ ticks = 0
    /\ inputs = 0
    /\ game = NoGame

handle_wheel(delta) ==
    /\ inputs < MaxWheels
    /\ camera_distance' = WheelZoom(camera_distance, delta)
    /\ inputs' = inputs + 1
    /\ UNCHANGED game
    /\ UNCHANGED << bodies, is_black_hole, time_scale, last_time, current_time,
                    focused_body_index, camera_rotation, use_celsius, positions,
                    dt, frame, ticks >>

NextWheel == \E delta \in WheelDeltas : handle_wheel(delta)

SpecWheel == InitWheel /\ [][NextWheel]_vars

\* C24: after a handle_wheel event, whatever the delta and the distance
\* before it, camera_distance is a number from 0.0001 to 100000000.
C24_WheelClamped ==
    inputs > 0 =>
        /\ camera_distance.k = "num"
        /\ ~FLess(camera_distance, ZoomMin)
        /\ ~FLess(ZoomMax, camera_distance)

\* three wheel events have left the distance strictly inside the bounds
C24_Witness ==
    /\ inputs = MaxWheels
    /\ FLess(ZoomMin, camera_distance)
    /\ FLess(camera_distance, ZoomMax)


-----------------------------------------------------------------------------
(* The runner game: Game in game/mod.rs.                                    *)
(* Lengths along x, and every width and depth, are in millionths of a unit; *)
(* z is in 1/80 of a unit, so that the f32 spacing of a large z (0.0625 and *)
(* more) is a whole number.  Of a GameObject the fields the game logic      *)
(* reads are kept (x, z, width, depth, velocity_x); y, height, color and    *)
(* is_car belong to drawing.  render is not modelled.                       *)

Micro == 1000000
ZPerUnit == 80
\* one z step, in millionths of a unit
ZMicro == Micro \div ZPerUnit

\* u32 values are pairs << high 16 bits, low 16 bits >>
Half == 65536
U32(n) == << (n \div Half) % Half, n % Half >>
Add32(a, b) == << (a[1] + b[1] + (a[2] + b[2]) \div Half) % Half, (a[2] + b[2]) % Half >>
\* the low and the high 16 bits of the product of two 16-bit numbers
MulLo16(x, y) == ((x % 256) * y + (((x \div 256) * y) % 256) * 256) % Half
MulHi16(x, y) == ((x % 256) * y + (((x \div 256) * y) % 256) * 256) \div Half + ((x \div 256) * y) \div 256
\* wrapping_mul
Mul32(a, b) == << (MulHi16(a[2], b[2]) + MulLo16(a[1], b[2]) + MulLo16(a[2], b[1])) % Half, MulLo16(a[2], b[2]) >>
RECURSIVE Xor16(_, _)
Xor16(x, y) == IF x = 0 THEN y ELSE IF y = 0 THEN x ELSE 2 * Xor16(x \div 2, y \div 2) + ((x + y) % 2)
Xor32(a, b) == << Xor16(a[1], b[1]), Xor16(a[2], b[2]) >>
Shr13(a) == << a[1] \div 8192, (a[1] % 8192) * 8 + a[2] \div 8192 >>
Shr16(a) == << 0, a[1] >>
Mod10000(a) == ((a[1] % 10000) * (Half % 10000) + a[2]) % 10000

\* proc_rand, in ten-thousandths
proc_rand(seed, x, y) ==
    LET N1(n0) == Xor32(n0, Shr13(n0))
        N2(n1) == Mul32(n1, U32(1274126177))
        N3(n2) == Xor32(n2, Shr16(n2))
    IN  Mod10000(N3(N2(N1(Add32(Add32(U32(seed), Mul32(U32(x), U32(374761393))),
                                Mul32(U32(y), U32(668265263)))))))

GameObject(x, z, width, depth, velocity_x) == [ x |-> x, z |-> z, width |-> width, depth |-> depth, velocity_x |-> velocity_x ]

create_lane_procedural(z, index, world_seed) ==
    LET R(y)      == proc_rand(world_seed, index, y)
        abs_index == Abs(index)
        biome_idx == TruncDiv(index, 50)
        lane_type ==
            IF index <= 0 THEN "Grass"
            ELSE IF index < 3 THEN "Grass"
            ELSE LET type_rand == R(1)
                 IN  CASE biome_idx % 3 = 0 ->
                            IF type_rand < 3500 THEN "Grass"
                            ELSE IF type_rand < 7000 THEN "Road" ELSE "Water"
                       [] biome_idx % 3 = 1 ->
                            IF type_rand < 2000 THEN "Water"
                            ELSE IF type_rand < 6000 THEN "Grass" ELSE "Road"
                       [] OTHER ->
                            IF type_rand < 2000 THEN "Road"
                            ELSE IF type_rand < 5000 THEN "Grass" ELSE "Water"
        \* difficulty = (abs_index / 20).min(1.5), in twentieths
        difficulty20 == IF abs_index < 30 THEN abs_index ELSE 30
        Road ==
            LET num_cars  == 1 + (R(2) * (40 + difficulty20)) \div 200000
                direction == IF R(3) > 5000 THEN 1 ELSE -1
                speed     == 20000 + difficulty20 * 1500 + R(4) * 2
                coin_x    == -8 * Micro + R(16) * 1600
            IN  [ obstacles |-> [ k \in 1 .. num_cars |->
                                    GameObject(-12 * Micro + (k - 1) * 7 * Micro + R(10 + k - 1) * 600,
                                               z, 2 * Micro, 1500000, speed * direction) ],
                  coins |-> IF R(15) > 7000
                            THEN << GameObject(coin_x, z, 400000, 400000, 0) >>
                            ELSE << >> ]
        Water ==
            LET base_logs == IF abs_index < 10 THEN 3 ELSE 2
                num_logs  == base_logs + (R(5) * 2) \div 10000
                direction == IF R(6) > 5000 THEN 1 ELSE -1
                speed     == 15000 + difficulty20 * 1000 + R(7)
                log_size  == 3 * Micro + R(8) * 200
                LogX(k)   == -10 * Micro + (k - 1) * 6 * Micro + R(30 + k - 1) * 400
                WithCoin  == { k \in 1 .. num_logs : R(35 + k - 1) > 7000 }
                RECURSIVE CoinsFrom(_)
                CoinsFrom(k) ==
                    IF k > num_logs THEN << >>
                    ELSE (IF k \in WithCoin
                          THEN << GameObject(LogX(k), z, 400000, 400000, speed * direction) >>
                          ELSE << >>) \o CoinsFrom(k + 1)
            IN  [ obstacles |-> [ k \in 1 .. num_logs |->
                                    GameObject(LogX(k), z, log_size, 1500000, speed * direction) ],
                  coins |-> CoinsFrom(1) ]
        Grass ==
            LET num_obstacles == (R(9) * 3) \div 10000
                obstacles ==
                    [ k \in 1 .. num_obstacles |->
                        LET x_pos   == -10 * Micro + R(40 + k - 1) * 2000
                            is_tree == R(50 + k - 1) > 3000
                        IN  IF is_tree
                            THEN GameObject(x_pos, z, 800000, 800000, 0)
                            ELSE GameObject(x_pos, z, 600000 + R(90 + k - 1) * 40,
                                            500000 + R(100 + k - 1) * 30, 0) ]
                coin_x   == -9 * Micro + R(96) * 1800
                collides == \E k \in 1 .. num_obstacles : Abs(obstacles[k].x - coin_x) < Micro
            IN  [ obstacles |-> obstacles,
                  coins |-> IF R(95) > 6000 /\ ~collides
                            THEN << GameObject(coin_x, z, 400000, 400000, 0) >>
                            ELSE << >> ]
        content == CASE lane_type = "Road" -> Road
                     [] lane_type = "Water" -> Water
                     [] OTHER -> Grass
    IN  [ z |-> z, lane_type |-> lane_type, obstacles |-> content.obstacles, coins |-> content.coins ]


\* base_y
BaseY == 500000

NewLanes(world_seed) ==
    [ k \in 1 .. 30 |-> create_lane_procedural((k - 6) * 2 * ZPerUnit, k - 6, world_seed) ]

\* Game::new, with the world seed Math.random() gave
NewGame(world_seed) ==
    [ constructed    |-> TRUE,
      player         |-> [ x |-> 0, y |-> BaseY, z |-> 0, width |-> 800000, depth |-> 800000 ],
      lanes          |-> NewLanes(world_seed),
      score          |-> 0,
      coins          |-> 0,
      game_over      |-> FALSE,
      moving         |-> FALSE,
      target_z       |-> 0,
      target_x       |-> 0,
      move_direction |-> 0,
      jump_progress  |-> 0,
      world_seed     |-> world_seed,
      furthest_lane  |-> 24,
      time           |-> 0,
      invincible     |-> FALSE ]

\* GameObject::collides_horizontal
collides_horizontal(self, other) ==
    /\ 2 * Abs(self.x - other.x) < self.width + other.width
    /\ 2 * Abs(self.z - other.z) * ZMicro < self.depth + other.depth

\* the distance between neighbouring f32 values around a z of v
F32SpacingZ(v) ==
    IF Abs(v) < 524288 * ZPerUnit THEN 1
    ELSE IF Abs(v) < 1048576 * ZPerUnit THEN ZPerUnit \div 16
    ELSE IF Abs(v) < 2097152 * ZPerUnit THEN ZPerUnit \div 8
    ELSE IF Abs(v) < 4194304 * ZPerUnit THEN ZPerUnit \div 4
    ELSE ZPerUnit \div 2

\* the f32 nearest to a z of v >= 0, ties to even
RoundF32Z(v) ==
    LET s == F32SpacingZ(v)
        q == v \div s
        r == v % s
    IN  IF 2 * r < s THEN q * s
        ELSE IF 2 * r > s THEN (q + 1) * s
        ELSE IF q % 2 = 0 THEN q * s ELSE (q + 1) * s

\* (z / 2.0).round() as i32
LaneIdx(z) == IF z >= 0 THEN (z + ZPerUnit) \div (2 * ZPerUnit) ELSE -((ZPerUnit - z) \div (2 * ZPerUnit))

\* 1.5 * sin(jump_progress * PI), jump_progress in thousandths
JumpY(jump_progress) ==
    LET t    == jump_progress % 2000
        u    == IF t <= 1000 THEN t ELSE t - 1000
        p    == u * (1000 - u)
        sinT == (16 * p * 10) \div ((5000000 - 4 * p) \div 100)
    IN  (IF t <= 1000 THEN 1 ELSE -1) * ((sinT * 3) \div 2) * (Micro \div 1000)

\* update, the part under `if self.moving`
MovePlayer(g) ==
    LET speed  == 150000
        speedZ == speed \div ZMicro
        jp     == g.jump_progress + (speed \div 2) \div (Micro \div 1000)
        up     == [ g EXCEPT !.jump_progress = jp, !.player.y = BaseY + JumpY(jp) ]
        landed == [ up EXCEPT !.moving = FALSE, !.jump_progress = 0, !.player.y = BaseY ]
    IN  CASE g.move_direction = 0 ->
               LET z == RoundF32Z(g.player.z + speedZ)
               IN  IF z >= g.target_z THEN [ landed EXCEPT !.player.z = g.target_z ]
                   ELSE [ up EXCEPT !.player.z = z ]
          [] g.move_direction = 2 ->
               LET x == g.player.x - speed
               IN  IF x <= g.target_x THEN [ landed EXCEPT !.player.x = g.target_x ]
                   ELSE [ up EXCEPT !.player.x = x ]
          [] g.move_direction = 3 ->
               LET x == g.player.x + speed
               IN  IF x >= g.target_x THEN [ landed EXCEPT !.player.x = g.target_x ]
                   ELSE [ up EXCEPT !.player.x = x ]
          [] OTHER -> up

\* update: lanes are generated up to player_lane_idx + 20
GenerateLanes(lanes, furthest_lane, player_lane_idx, world_seed) ==
    lanes \o [ k \in 1 .. (player_lane_idx + 20 - furthest_lane) |->
                 create_lane_procedural((furthest_lane + k) * 2 * ZPerUnit, furthest_lane + k, world_seed) ]

\* variant: lanes are kept one lane further back
RetainLanesBack(lanes, player_lane_idx) ==
    SelectSeq(lanes, LAMBDA lane : LaneIdx(lane.z) > player_lane_idx - 11)

\* update: lanes.retain
RetainLanes(lanes, player_lane_idx) ==
    SelectSeq(lanes, LAMBDA lane : LaneIdx(lane.z) > player_lane_idx - 10)

\* update: an obstacle or coin drifts and wraps round at +-15
Drift(object) ==
    LET x == object.x + object.velocity_x
    IN  [ object EXCEPT !.x = IF x > 15 * Micro THEN -15 * Micro
                              ELSE IF x < -15 * Micro THEN 15 * Micro ELSE x ]

\* update: the loop over the lanes; coins the player touches are collected
MoveLane(lane, player) ==
    LET coins == [ k \in 1 .. Len(lane.coins) |-> Drift(lane.coins[k]) ]
    IN  [ lane EXCEPT !.obstacles = [ k \in 1 .. Len(lane.obstacles) |-> Drift(lane.obstacles[k]) ],
                      !.coins = SelectSeq(coins, LAMBDA coin : ~collides_horizontal(player, coin)) ]

RECURSIVE CoinsLeft(_, _)
CoinsLeft(lanes, k) == IF k > Len(lanes) THEN 0 ELSE Len(lanes[k].coins) + CoinsLeft(lanes, k + 1)

\* update: "Move player with log", one obstacle after the other
RECURSIVE PushByLogs(_, _, _)
PushByLogs(player, obstacles, k) ==
    IF k > Len(obstacles) THEN player
    ELSE PushByLogs(IF collides_horizontal(player, obstacles[k])
                    THEN [ player EXCEPT !.x = @ + obstacles[k].velocity_x ]
                    ELSE player,
                    obstacles, k + 1)

Clamp(v, lo, hi) == IF v < lo THEN lo ELSE IF v > hi THEN hi ELSE v

\* update, past the early return; time counts the calls (0.016 s each)
UpdateFrame(g) ==
    LET Finish(moved, retained, lanes, at_player) ==
            LET player          == moved.player
                player_lane_idx == LaneIdx(player.z)
                furthest_lane   == IF g.furthest_lane < player_lane_idx + 20
                                   THEN player_lane_idx + 20 ELSE g.furthest_lane
                coins_collected == CoinsLeft(retained, 1) - CoinsLeft(lanes, 1)
                found           == Len(at_player) > 0
                lane            == at_player[1]
                hit             == \E k \in 1 .. Len(lane.obstacles) :
                                       collides_horizontal(player, lane.obstacles[k])
                game_over       == /\ found
                                   /\ ~moved.moving
                                   /\ ~g.invincible
                                   /\ \/ lane.lane_type = "Road" /\ hit
                                      \/ lane.lane_type = "Water" /\ ~hit
                pushed          == IF found /\ lane.lane_type = "Water"
                                   THEN PushByLogs(player, lane.obstacles, 1) ELSE player
                new_score       == player.z \div (2 * ZPerUnit)
            IN  [ moved EXCEPT !.time = @ + 1,
                               !.furthest_lane = furthest_lane,
                               !.lanes = lanes,
                               !.coins = @ + coins_collected,
                               !.game_over = game_over,
                               !.player = [ pushed EXCEPT !.x = Clamp(pushed.x, -10 * Micro, 10 * Micro) ],
                               !.score = IF new_score > @ THEN new_score ELSE @ ]
        AtPlayer(moved, retained, lanes) ==
            Finish(moved, retained, lanes,
                   SelectSeq(lanes, LAMBDA lane : LaneIdx(lane.z) = LaneIdx(moved.player.z)))
        Moved(moved, retained) ==
            AtPlayer(moved, retained,
                     [ k \in 1 .. Len(retained) |-> MoveLane(retained[k], moved.player) ])
        Retained(moved) ==
            Moved(moved,
                  RetainLanes(GenerateLanes(g.lanes, g.furthest_lane, LaneIdx(moved.player.z),
                                            g.world_seed),
                              LaneIdx(moved.player.z)))
    IN  Retained(IF g.moving THEN MovePlayer(g) ELSE g)

\* variant: the frame runs in full when the game is over
UpdateGameRegardless(g) == UpdateFrame(g)

\* Game::update
UpdateGame(g) == IF g.game_over THEN [ g EXCEPT !.time = @ + 1 ] ELSE UpdateFrame(g)

\* the lanes of FarGame
FarLanes ==
    << [ z |-> 335542880, lane_type |-> "Road",
         obstacles |-> << GameObject(6462450, 335542880, 2000000, 1500000, 76536),
                        GameObject(14388251, 335542880, 2000000, 1500000, 76536) >>,
         coins |-> << >> ],
       [ z |-> 335543040, lane_type |-> "Road",
         obstacles |-> << GameObject(2428805, 335543040, 2000000, 1500000, -72248),
                        GameObject(12904795, 335543040, 2000000, 1500000, -72248) >>,
         coins |-> << GameObject(-4081600, 335543040, 400000, 400000, 0) >> ],
       [ z |-> 335543200, lane_type |-> "Water",
         obstacles |-> << GameObject(3148421, 335543200, 4651400, 1500000, 51877),
                        GameObject(11071221, 335543200, 4651400, 1500000, 51877),
                        GameObject(14128021, 335543200, 4651400, 1500000, 51877) >>,
         coins |-> << GameObject(3148421, 335543200, 400000, 400000, 51877),
                    GameObject(14128021, 335543200, 400000, 400000, 51877) >> ],
       [ z |-> 335543360, lane_type |-> "Road",
         obstacles |-> << GameObject(3626292, 335543360, 2000000, 1500000, -74338) >>,
         coins |-> << GameObject(-3401600, 335543360, 400000, 400000, 0) >> ],
       [ z |-> 335543520, lane_type |-> "Water",
         obstacles |-> << GameObject(13055278, 335543520, 4607600, 1500000, -45226),
                        GameObject(-11664550, 335543520, 4607600, 1500000, -45226) >>,
         coins |-> << GameObject(13055278, 335543520, 400000, 400000, -45226) >> ],
       [ z |-> 335543680, lane_type |-> "Grass",
         obstacles |-> << >>,
         coins |-> << GameObject(-1909800, 335543680, 400000, 400000, 0) >> ],
       [ z |-> 335543840, lane_type |-> "Road",
         obstacles |-> << GameObject(2649004, 335543840, 2000000, 1500000, -84596) >>,
         coins |-> << >> ],
       [ z |-> 335544000, lane_type |-> "Water",
         obstacles |-> << GameObject(14533648, 335544000, 3007000, 1500000, -51817),
                        GameObject(-11770467, 335544000, 3007000, 1500000, -51817),
                        GameObject(-5070468, 335544000, 3007000, 1500000, -51817) >>,
         coins |-> << GameObject(14533648, 335544000, 400000, 400000, -51817),
                    GameObject(-5070468, 335544000, 400000, 400000, -51817) >> ],
       [ z |-> 335544160, lane_type |-> "Water",
         obstacles |-> << GameObject(298297, 335544160, 3704800, 1500000, 51493),
                        GameObject(7978700, 335544160, 3704800, 1500000, 51493) >>,
         coins |-> << >> ],
       [ z |-> 335544320, lane_type |-> "Water",
         obstacles |-> << GameObject(-980704, 335544320, 3274400, 1500000, 45300),
                        GameObject(3564101, 335544320, 3274400, 1500000, 45300) >>,
         coins |-> << GameObject(3564101, 335544320, 400000, 400000, 45300) >> ],
       [ z |-> 335544480, lane_type |-> "Water",
         obstacles |-> << GameObject(13687900, 335544480, 4492200, 1500000, -46861),
                        GameObject(-7364788, 335544480, 4492200, 1500000, -46861),
                        GameObject(-4232375, 335544480, 4492200, 1500000, -46861) >>,
         coins |-> << GameObject(13687900, 335544480, 400000, 400000, -46861) >> ],
       [ z |-> 335544640, lane_type |-> "Water",
         obstacles |-> << GameObject(14260574, 335544640, 3781200, 1500000, -46214),
                        GameObject(-7920299, 335544640, 3781200, 1500000, -46214) >>,
         coins |-> << >> ],
       [ z |-> 335544800, lane_type |-> "Water",
         obstacles |-> << GameObject(-14012528, 335544800, 3609600, 1500000, -52662),
                        GameObject(-9422527, 335544800, 3609600, 1500000, -52662),
                        GameObject(-5286536, 335544800, 3609600, 1500000, -52662) >>,
         coins |-> << >> ],
       [ z |-> 335544960, lane_type |-> "Water",
         obstacles |-> << GameObject(-961985, 335544960, 4689000, 1500000, 53937),
                        GameObject(3570017, 335544960, 4689000, 1500000, 53937),
                        GameObject(12169616, 335544960, 4689000, 1500000, 53937) >>,
         coins |-> << GameObject(12169616, 335544960, 400000, 400000, 53937) >> ],
       [ z |-> 335545120, lane_type |-> "Road",
         obstacles |-> << GameObject(1819494, 335545120, 2000000, 1500000, 71868),
                        GameObject(6978095, 335545120, 2000000, 1500000, 71868),
                        GameObject(11425694, 335545120, 2000000, 1500000, 71868) >>,
         coins |-> << >> ],
       [ z |-> 335545280, lane_type |-> "Road",
         obstacles |-> << GameObject(-286708, 335545280, 2000000, 1500000, 75688) >>,
         coins |-> << GameObject(-4833600, 335545280, 400000, 400000, 0) >> ],
       [ z |-> 335545440, lane_type |-> "Road",
         obstacles |-> << GameObject(9985538, 335545440, 2000000, 1500000, -77146) >>,
         coins |-> << GameObject(1297600, 335545440, 400000, 400000, 0) >> ],
       [ z |-> 335545600, lane_type |-> "Grass",
         obstacles |-> << GameObject(594000, 335545600, 800000, 800000, 0),
                        GameObject(2412000, 335545600, 800000, 800000, 0) >>,
         coins |-> << >> ],
       [ z |-> 335545760, lane_type |-> "Grass",
         obstacles |-> << >>,
         coins |-> << GameObject(-2433600, 335545760, 400000, 400000, 0) >> ],
       [ z |-> 335545920, lane_type |-> "Grass",
         obstacles |-> << GameObject(-6962000, 335545920, 800000, 800000, 0) >>,
         coins |-> << GameObject(-5151600, 335545920, 400000, 400000, 0) >> ],
       [ z |-> 335546080, lane_type |-> "Road",
         obstacles |-> << GameObject(-2563103, 335546080, 2000000, 1500000, 67926),
                        GameObject(5457499, 335546080, 2000000, 1500000, 67926),
                        GameObject(9543307, 335546080, 2000000, 1500000, 67926) >>,
         coins |-> << >> ],
       [ z |-> 335546240, lane_type |-> "Grass",
         obstacles |-> << GameObject(-1538000, 335546240, 800000, 800000, 0) >>,
         coins |-> << GameObject(406800, 335546240, 400000, 400000, 0) >> ],
       [ z |-> 335546400, lane_type |-> "Road",
         obstacles |-> << GameObject(-10223909, 335546400, 2000000, 1500000, -66854),
                        GameObject(-7679494, 335546400, 2000000, 1500000, -66854) >>,
         coins |-> << >> ],
       [ z |-> 335546560, lane_type |-> "Grass",
         obstacles |-> << GameObject(5290001, 335546560, 800000, 800000, 0) >>,
         coins |-> << GameObject(-2260800, 335546560, 400000, 400000, 0) >> ],
       [ z |-> 335546720, lane_type |-> "Grass",
         obstacles |-> << >>,
         coins |-> << >> ],
       [ z |-> 335546880, lane_type |-> "Grass",
         obstacles |-> << GameObject(7274000, 335546880, 930280, 513380, 0),
                        GameObject(-7196000, 335546880, 800000, 800000, 0) >>,
         coins |-> << >> ],
       [ z |-> 335547040, lane_type |-> "Road",
         obstacles |-> << GameObject(-11565258, 335547040, 2000000, 1500000, -74368) >>,
         coins |-> << GameObject(3265600, 335547040, 400000, 400000, 0) >> ],
       [ z |-> 335547200, lane_type |-> "Grass",
         obstacles |-> << GameObject(6404001, 335547200, 800000, 800000, 0) >>,
         coins |-> << >> ],
       [ z |-> 335547360, lane_type |-> "Grass",
         obstacles |-> << GameObject(2908000, 335547360, 800000, 800000, 0),
                        GameObject(-9252000, 335547360, 800000, 800000, 0) >>,
         coins |-> << GameObject(7747200, 335547360, 400000, 400000, 0) >> ],
       [ z |-> 335547520, lane_type |-> "Road",
         obstacles |-> << GameObject(-6958151, 335547520, 2000000, 1500000, 83050) >>,
         coins |-> << >> ] >>

\* the game after 2097152 hops forward made with debug_advance, each run to its
\* end by update, in the world of seed 123456: the player stands at z = 4194304.0
FarGame ==
    [ constructed    |-> TRUE,
      player         |-> [ x |-> 10000000, y |-> BaseY, z |-> 335544320, width |-> 800000, depth |-> 800000 ],
      lanes          |-> FarLanes,
      score          |-> 2097152,
      coins          |-> 23087,
      game_over      |-> FALSE,
      moving         |-> FALSE,
      target_z       |-> 335544320,
      target_x       |-> 0,
      move_direction |-> 0,
      jump_progress  |-> 0,
      world_seed     |-> 123456,
      furthest_lane  |-> 2097172,
      time           |-> 24444928,
      invincible     |-> TRUE ]

MaxFrames == 72
MaxExtras == 2
WorldSeeds == { 10, 22 }

InitGame ==
    /\ game \in { NewGame(world_seed) : world_seed \in WorldSeeds } \cup { FarGame }
    /\ bodies = << >>
    /\ is_black_hole = FALSE
    /\ time_scale = 1
    /\ last_time = 0
    /\ current_time = 0
    /\ focused_body_index = None
    /\ camera_distance = 600000000
    /\ camera_rotation = << 0, 0 >>
    /\ use_celsius = TRUE
    /\ positions = << >>
    /\ dt = 0
    /\ frame = NoFrame
    /\ ticks = 0
    /\ inputs = 0

SolarSystemUntouched ==
    UNCHANGED << bodies, is_black_hole, time_scale, last_time, current_time,
                 focused_body_index, camera_distance, camera_rotation, use_celsius,
                 positions, dt, frame >>

\* The run is bounded by ticks, the number of animation frames, and by inputs,
\* the number of extras: frames that pass while no hop is under way, hops
\* sideways, calls of debug_advance and restarts.
Extra == inputs < MaxExtras /\ inputs' = inputs + 1

\* one animation frame
game_update ==
    /\ ticks < MaxFrames
    /\ game' = UpdateGame(game)
    /\ ticks' = ticks + 1
    /\ IF game.moving THEN UNCHANGED inputs ELSE Extra
    /\ SolarSystemUntouched

MoveForward(g) ==
    IF ~g.moving /\ ~g.game_over
    THEN [ g EXCEPT !.moving = TRUE, !.target_z = RoundF32Z(g.player.z + 2 * ZPerUnit), !.move_direction = 0 ]
    ELSE g

move_forward ==
    /\ game' = MoveForward(game)
    /\ UNCHANGED << ticks, inputs >>
    /\ SolarSystemUntouched

MoveLeft(g) ==
    IF ~g.moving /\ ~g.game_over /\ g.player.x - 2 * Micro >= -10 * Micro
    THEN [ g EXCEPT !.moving = TRUE, !.target_x = g.player.x - 2 * Micro, !.move_direction = 2 ]
    ELSE g

move_left ==
    /\ game' = MoveLeft(game)
    /\ IF game' = game THEN UNCHANGED inputs ELSE Extra
    /\ UNCHANGED ticks
    /\ SolarSystemUntouched

MoveRight(g) ==
    IF ~g.moving /\ ~g.game_over /\ g.player.x + 2 * Micro <= 10 * Micro
    THEN [ g EXCEPT !.moving = TRUE, !.target_x = g.player.x + 2 * Micro, !.move_direction = 3 ]
    ELSE g

move_right ==
    /\ game' = MoveRight(game)
    /\ IF game' = game THEN UNCHANGED inputs ELSE Extra
    /\ UNCHANGED ticks
    /\ SolarSystemUntouched

debug_advance ==
    /\ game' = MoveForward([ game EXCEPT !.invincible = TRUE ])
    /\ IF game' = game THEN UNCHANGED inputs ELSE Extra
    /\ UNCHANGED ticks
    /\ SolarSystemUntouched

\* Game::restart, with the world seed Math.random() gives
Restart(g, world_seed) ==
    [ g EXCEPT !.player.x = 0, !.player.y = BaseY, !.player.z = 0,
               !.score = 0, !.coins = 0, !.game_over = FALSE, !.moving = FALSE,
               !.jump_progress = 0, !.invincible = FALSE,
               !.world_seed = world_seed, !.furthest_lane = 24,
               !.lanes = NewLanes(world_seed) ]

\* R is pressed when the game is over
restart(world_seed) ==
    /\ game.game_over
    /\ game' = Restart(game, world_seed)
    /\ Extra
    /\ UNCHANGED ticks
    /\ SolarSystemUntouched

NextGame ==
    \/ game_update
    \/ move_forward
    \/ move_left
    \/ move_right
    \/ debug_advance
    \/ \E world_seed \in WorldSeeds : restart(world_seed)

SpecGame == InitGame /\ [][NextGame]_vars


-----------------------------------------------------------------------------
(* Properties of the runner game *)

IsRestart == \E world_seed \in WorldSeeds : restart(world_seed)

\* C28: once the game is over it stays over, and the player's position, the
\* score, the coins, the lanes and the moving flag are left as they are by
\* every call other than restart.
C28_GameOverFreezes ==
    [][ (game.game_over /\ ~IsRestart) =>
            /\ game'.game_over
            /\ game'.player = game.player
            /\ game'.score = game.score
            /\ game'.coins = game.coins
            /\ game'.lanes = game.lanes
            /\ game'.moving = game.moving ]_vars

\* the game ended on landing in lane 3 at frame 42 and a frame has run since
C28_Witness ==
    /\ game.game_over
    /\ game.time = 43
    /\ game.score = 3
    /\ inputs = 1

\* C29: a hop that was accepted comes to its end under repeated updates (each
\* frame of the hop takes the player nearer to the target, or ends the hop);
\* while a hop is under way no other move is accepted, and the game is never
\* over while the player is moving.
C29_HopCompletes ==
    /\ [][ (game.moving /\ game' = UpdateGame(game)) =>
               \/ ~game'.moving
               \/ game.move_direction = 0 /\ game'.player.z > game.player.z
               \/ game.move_direction = 2 /\ game'.player.x < game.player.x
               \/ game.move_direction = 3 /\ game'.player.x > game.player.x ]_vars
    /\ [][ (game.moving /\ (move_forward \/ move_left \/ move_right)) =>
               /\ game'.target_z = game.target_z
               /\ game'.target_x = game.target_x
               /\ game'.move_direction = game.move_direction ]_vars
    /\ [](game.constructed => ~(game.game_over /\ game.moving))

LaneIndices == { LaneIdx(game.lanes[k].z) : k \in 1 .. Len(game.lanes) }

\* C30: exactly one lane lies at the player's lane index round(z / 2), no two
\* lanes share an index, there is a lane at every index from the player's up
\* to the player's + 20, and no lane is left at or below the player's - 10.
C30_LanesAroundPlayer ==
    game.constructed =>
        LET player_lane_idx == LaneIdx(game.player.z)
        IN  /\ Cardinality({ k \in 1 .. Len(game.lanes) : LaneIdx(game.lanes[k].z) = player_lane_idx }) = 1
            /\ Cardinality(LaneIndices) = Len(game.lanes)
            /\ \A index \in player_lane_idx .. player_lane_idx + 20 : index \in LaneIndices
            /\ \A index \in LaneIndices : index > player_lane_idx - 10

\* the player has gone far enough for a lane to be generated ahead and for the
\* rearmost lane to be dropped
C30_Witness ==
    /\ game.constructed
    /\ game.furthest_lane = 25
    /\ Len(game.lanes) = 30
    /\ LaneIdx(game.lanes[1].z) = -4
    /\ LaneIdx(game.player.z) = 5


-----------------------------------------------------------------------------
(* SolarSystem::handle_mouse_down, handle_mouse_move, handle_mouse_up, and  *)
(* the label pass of render under a camera the mouse has turned.           *)

\* mouse drags explored
MaxDrags == 1
\* (dx, dy) of a drag, in pixels
Drags == { << 43, -58 >>, << -150, 250 >> }

\* self.camera_rotation.1 += dx * 0.01; self.camera_rotation.0 += dy * 0.01;
\* self.camera_rotation.0 = self.camera_rotation.0.max(-1.5).min(1.5)
DragRotation(rotation, dx, dy) ==
    LET limit == RadToQuanta(1500 * TrigScale)
    IN  << Min(Max(rotation[1] + RadToQuanta(10 * dy * TrigScale), -limit), limit),
           rotation[2] + RadToQuanta(10 * dx * TrigScale) >>

\* a button press, one move by (dx, dy) and the release
mouse_drag(dx, dy) ==
    /\ inputs < MaxInputs + MaxDrags
    /\ camera_rotation' = DragRotation(camera_rotation, dx, dy)
    /\ inputs' = inputs + 1
    /\ UNCHANGED game
    /\ UNCHANGED << bodies, is_black_hole, time_scale, last_time, current_time,
                    focused_body_index, camera_distance, use_celsius, positions,
                    dt, frame, ticks >>

NextLabels ==
    \/ \E index \in SelectIndices : select_body(index)
    \/ \E gap \in Gaps : update(gap)
    \/ \E size \in Sizes : render(size[1], size[2])
    \/ \E drag \in Drags : mouse_drag(drag[1], drag[2])

SpecLabels == Init /\ [][NextLabels]_vars

\* the clip coordinates frame.clip[i] lie outside the screen
OffScreen(i) ==
    \/ frame.clip[i].w <= 0
    \/ Abs(frame.clip[i].x) > frame.clip[i].w
    \/ Abs(frame.clip[i].y) > frame.clip[i].w

\* C22: in a rendered frame, the label of every labelled body whose
\* projected centre is outside [-1,1] in x or in y, or whose w is not
\* positive, is hidden, whatever the other bodies and the frame before.
C22_OffScreenLabelHidden ==
    frame.rendered =>
        \A i \in DOMAIN frame.labels :
            OffScreen(i) => frame.labels[i].display = "none"

\* a frame rendered after a drag, with a label hidden behind the camera,
\* a label hidden in front of it beside the screen, and a label shown
C22_Witness ==
    /\ frame.rendered
    /\ inputs > 0
    /\ \E i \in DOMAIN frame.labels :
          frame.clip[i].w <= 0 /\ frame.labels[i].display = "none"
    /\ \E i \in DOMAIN frame.labels :
          frame.clip[i].w > 0 /\ OffScreen(i) /\ frame.labels[i].display = "none"
    /\ \E i \in DOMAIN frame.labels : frame.labels[i].display = "block"

\* the screen disc of body j in the rendered frame, for frame.clip[j].w > 0
Disc(j) == BodyScreenData(frame.entries[j], frame.clip[j], frame.width, frame.height)

\* body j is closer to the camera than body i and its disc covers the
\* centre of body i (lengths in 1/10 pixel)
Covers(j, i) ==
    /\ j # i
    /\ frame.clip[j].w > 0
    /\ frame.entries[j].dist < frame.entries[i].dist
    /\ LET dx == TruncDiv(Disc(i).screen_x - Disc(j).screen_x, 100)
           dy == TruncDiv(Disc(i).screen_y - Disc(j).screen_y, 100)
           r  == Disc(j).radius_px \div 100
       IN  Abs(dx) < r /\ Abs(dy) < r /\ dx * dx + dy * dy < r * r

\* C21: in a rendered frame, the label of a labelled body in front of the
\* camera is hidden if some other body is closer and has a pixel radius
\* larger than the screen distance between the two centres; otherwise, if
\* the body is on screen, its label is shown at its projected position.
C21_LabelHiddenBehindCloserBody ==
    frame.rendered =>
        \A i \in DOMAIN frame.labels :
            frame.clip[i].w > 0 =>
                IF \E j \in DOMAIN frame.entries : Covers(j, i)
                THEN frame.labels[i].display = "none"
                ELSE ~OffScreen(i) =>
                        /\ frame.labels[i].display = "block"
                        /\ frame.labels[i].left = Disc(i).screen_x
                        /\ frame.labels[i].top = Disc(i).label_y

====
